---------------------------- MODULE Spec2Model ----------------------------
(***************************************************************************)
(* A model of the ny2026 fireworks program: the SoundManager (a voice list *)
(* shared by the main context and the audio backend's callback), the       *)
(* Firework / Particle simulation, and the BrailleCanvas framebuffer.      *)
(*                                                                         *)
(* Units.  The source computes in floats; the model computes in integers:  *)
(* times in tenths of a second, positions in thousandths of a pixel,       *)
(* velocities in hundredths of a pixel per second, so that x += vx * dt    *)
(* is exact.  Pan positions are in thousandths (the cache keys             *)
(* round(pan, 3) of the source, times 1000).                               *)
(***************************************************************************)
EXTENDS Integers, Sequences, FiniteSets, Bags, TLC

VARIABLES
    \* ---- SoundManager (src/main.py 307-527)
    enabled,              \* self.enabled
    explosion_sound_data, \* self.explosion_sound_data: the mono base waveform
    stereo_cache,         \* self.stereo_cache: the set of pan keys present
    active_sounds,        \* self.active_sounds: sequence of [data, position]
    sound_lock,           \* self.sound_lock: "free", or the context holding it
    main_pc,              \* where the main context is inside play_explosion
    play_x, play_w,       \* the arguments of the play_explosion call in progress
    stereo_data,          \* play_explosion's local: the variant chosen
    play_raised,          \* the exception the last play_explosion call let
                          \* out to its caller, "none" when it returned
    audio_pc,             \* where the audio context is inside _audio_callback
    frames,               \* the callback's frames argument
    outdata,              \* the callback's output buffer
    to_outputs,           \* the callback's local to_output, one per voice mixed
    sounds_to_remove,     \* the callback's local sounds_to_remove
    burst,                \* history: play_explosion calls returned since
                          \* construction with no mixing pass yet; -1 after one
    \* ---- the sound thread (src/main.py 417-423, 453-485)
    running,              \* self.running, the keep-alive flag stop() clears
    thread_pc,            \* where the thread is in _sound_playback_loop:
                          \* "none" (never started), "open", "alive",
                          \* "stopping", "closing" or "exited"
    stream,               \* the OutputStream: "none", "started", "stopped",
                          \* "closed"
    \* ---- fireworks(), the frame loop (src/main.py 937-1067)
    fireworks,            \* the list of Firework objects
    camera_z,             \* camera position
    elapsed,              \* current_time - start_time
    last_spawn_time,      \* elapsed at the last automatic spawn
    spawn_interval,       \* the interval drawn for the next automatic spawn
    midnight_reached,     \* the gate returned by get_countdown_to_newyear_2026
    loop_pc,              \* "running" until the loop is left, then how it
                          \* was left: "stopped", "interrupted" or "failed"
    spawned,              \* history: Firework objects constructed so far
    updated,              \* history: the list fireworks as the last iteration
                          \* had it after the updates, before the filter
    frame_log,            \* history: what the last iteration did to the
                          \* canvas and the terminal, in order
    written,              \* history: the texts the last iteration printed
    stop_pc,              \* where the main context is in stop(): "idle",
                          \* "join" or "returned"
    teardown,             \* history: the steps of the finally block done
    stdin,                \* the keys typed and not yet read from sys.stdin
    tracked,              \* history: the place on active_sounds of one voice
                          \* that is followed from its append on, 0 for none
    \* ---- a single Particle under test (src/main.py 611-673)
    probe,                \* the Particle
    probe_alive,          \* what probe.is_alive() returned last
    \* ---- BrailleCanvas (src/braille_canvas.py)
    width, height,        \* self.width, self.height (pixels)
    char_width,           \* self.char_width (cells per row)
    char_height,          \* self.char_height (rows of cells)
    buffer,               \* self.buffer: rows of cells [mask, color]
    default_color,        \* self.default_color
    rendered,             \* what render() returned, when it was the last call
    canvas_op,            \* history: the last call on the canvas, its arguments
    canvas_calls,         \* history: calls made on the canvas so far
    \* ---- one generator made by _bresenham_line (src/braille_canvas.py 124-155)
    line_args,            \* <<x0, y0, x1, y1>>
    line_pc,              \* "idle", "start", "yielded" or "done"
    line_gen,             \* the generator's frame: [x, y, err]
    line_yielded          \* history: the points yielded so far

audio_vars == <<enabled, explosion_sound_data, stereo_cache, active_sounds,
                sound_lock, main_pc, play_x, play_w, stereo_data, play_raised,
                audio_pc,
                frames, outdata, to_outputs, sounds_to_remove, burst>>

\* Groups used in the UNCHANGED clauses.
sm_fields == <<enabled, explosion_sound_data, stereo_cache>>
play_locals == <<play_x, play_w, stereo_data, play_raised>>
cb_locals == <<frames, outdata, to_outputs, sounds_to_remove>>

sim_vars == <<fireworks, camera_z, elapsed, last_spawn_time, spawn_interval,
              midnight_reached, loop_pc, spawned, updated, frame_log,
              written>>

thread_vars == <<running, thread_pc, stream>>

life_vars == <<stop_pc, teardown>>

probe_vars == <<probe, probe_alive>>

canvas_vars == <<width, height, char_width, char_height, buffer,
                 default_color, rendered, canvas_op, canvas_calls>>

line_vars == <<line_args, line_pc, line_gen, line_yielded>>

\* What a single specification lets change.
side_vars == <<stdin, tracked>>

vars == <<audio_vars, thread_vars, sim_vars, life_vars, side_vars, probe_vars,
          canvas_vars, line_vars>>

\* Everything but the SoundManager and its thread; everything but the frame
\* loop and the SoundManager.
not_audio_vars == <<sim_vars, life_vars, side_vars, probe_vars, canvas_vars,
                    line_vars>>
not_loop_vars == <<probe_vars, canvas_vars, line_vars>>

-----------------------------------------------------------------------------
(* Bounds of the model *)

\* Samples in the base waveform (the source: int(22050 * 1.5) = 33075).
SoundLen == 3
\* Largest callback block (the source opens the stream with blocksize 1024).
MaxFrames == 2
\* The frame loop is followed until `elapsed` reaches MaxTime tenths of a second.
MaxTime == 75
\* The same for the runs at the ordinary frame times and at the short one.
SimTime == 40
FastTime == 30
\* Firework objects constructed in one run: in the runs that follow the
\* fireworks through their lives, and in the runs that follow the spawning.
SimSpawns == 1
MaxSpawns == 2
\* The runs that follow the spawning last GateTime tenths of a second and
\* start with at most MaxKeys keys typed ahead.
GateTime == 20
MaxKeys == 2
\* In the runs that follow a firework to its removal, fireworks are launched
\* in iterations that start at most SpawnBy tenths of a second into the run.
SpawnBy == 4
\* The largest buffer the backend asks for while a voice is followed.
VoiceFrames == 1
\* The Particle under test is followed up to this age, in tenths of a second.
MaxAge == 30
\* Voices on the list while play_explosion is tried over many arguments.
MaxPanCalls == 1
\* Calls made on the canvas in one run.
MaxCanvasCalls == 3
\* Line endpoints have coordinates in -MaxCoord..MaxCoord.
MaxCoord == 4

-----------------------------------------------------------------------------
(* Helpers *)

Min(a, b) == IF a < b THEN a ELSE b
Range(s) == {s[i] : i \in DOMAIN s}

-----------------------------------------------------------------------------
(* SoundManager *)

max_concurrent_sounds == 8

\* The 17 pan positions -1.0, -0.875, ..., 1.0 of _generate_stereo_cache.
PanKey(i) == -1000 + i * 125
PanKeys == {PanKey(i) : i \in 0 .. 16}

\* cos(i * pi / 32) and sin(i * pi / 32) in thousandths: the constant-power
\* gains of pan position i (pan_angle = (pan + 1) * pi / 4).
CosTable == <<1000, 995, 981, 957, 924, 882, 831, 773, 707,
              634, 556, 471, 383, 290, 195, 98, 0>>
left_gain(key) == CosTable[((key + 1000) \div 125) + 1]
right_gain(key) == CosTable[17 - ((key + 1000) \div 125)]

\* One stereo frame of the cached variant `key`: column_stack of the mono data
\* times the two gains.
StereoFrame(mono, key, k) == <<mono[k] * left_gain(key), mono[k] * right_gain(key)>>

\* len(sound_data): every variant is as long as the base waveform.
DataLen(mono) == Len(mono)

\* The base waveform of _generate_explosion_sound (random noise in the source):
\* here sample k has the value k, so that a sample tells its index.
BaseWaveform == [k \in 1 .. SoundLen |-> k]

\* __init__ lines 313-327: the fields that do not depend on the synthesis.
InitManager ==
    /\ explosion_sound_data = BaseWaveform
    /\ active_sounds = <<>>
    /\ sound_lock = "free"
    /\ main_pc = "idle"
    /\ play_x = 0
    /\ play_w = 0
    /\ stereo_data = 0
    /\ play_raised = "none"
    /\ audio_pc = "idle"
    /\ frames = 0
    /\ outdata = <<>>
    /\ burst = 0
    /\ to_outputs = <<>>
    /\ sounds_to_remove = <<>>

\* __init__ lines 312 and 329-341: audio is enabled with the full cache, or
\* (module missing, or the synthesis raised) disabled with the empty cache.
InitAudio ==
    /\ enabled \in BOOLEAN
    /\ stereo_cache = IF enabled THEN PanKeys ELSE {}
    /\ InitManager

\* Rounding half up, floor(num / den + 1/2), in place of the line below.
RoundHalfUp(num, den) == (2 * num + den) \div (2 * den)

\* round(num / den) as Python 3 rounds: to nearest, ties to the even integer.
RoundHalfEven(num, den) ==
    LET fl == num \div den
        r == num - fl * den
    IN IF 2 * r < den THEN fl
       ELSE IF 2 * r > den THEN fl + 1
       ELSE IF fl % 2 = 0 THEN fl ELSE fl + 1

\* np.clip(v, lo, hi)
Clip(v, lo, hi) == IF v < lo THEN lo ELSE IF v > hi THEN hi ELSE v

\* play_explosion lines 505-511: pan = clip(x / screen_width * 2 - 1, -1, 1),
\* quantized_pan = round(clip(round(pan / 0.125) * 0.125, -1, 1), 3).
\* x is in thousandths of a pixel, w in pixels (w > 0); pan / 0.125 is the
\* fraction num / den below, clipped to -8 .. 8 before it is rounded.
QuantizedPan(x, w) ==
    LET den == 1000 * w
        num == Clip(16 * x - 8000 * w, 0 - 8 * den, 8 * den)
    IN Clip(RoundHalfEven(num, den) * 125, -1000, 1000)

\* A lookup with no fallback, in place of the line below.
LookupNoFallback(cache, key) == IF key \in cache THEN {key} ELSE {}

\* Lines 514-519: the cache lookup with its fallback to the center variant:
\* the set holding the variant found, empty when both are missing.
LookupVariant(cache, key) ==
    IF key \in cache THEN {key} ELSE IF 0 \in cache THEN {0} ELSE {}

CeilingReachedOffByOne(sounds) == Len(sounds) > max_concurrent_sounds

\* Line 500: the ceiling test.
CeilingReached(sounds) == Len(sounds) >= max_concurrent_sounds

\* History only: one more play_explosion call has returned.
BurstAfterCall(ok) ==
    IF burst < 0 \/ ~ok THEN -1 ELSE Min(burst + 1, max_concurrent_sounds + 1)

\* The (x, screen_width) arguments tried: both quantize to the pan position 0.5
\* (x = 6.0 gives pan 0.5; x = 6.1 gives pan 0.525, which rounds down to it).
PlayInputs == {<<6000, 8>>, <<6100, 8>>}

\* Lines 487-495: the call and its early return when audio is off.
PlayCall(x, w) ==
    /\ main_pc = "idle"
    /\ IF ~enabled \/ stereo_cache = {}
       THEN /\ main_pc' = "idle"
            /\ burst' = BurstAfterCall(FALSE)
            /\ UNCHANGED play_locals
       ELSE /\ main_pc' = "lock1"
            /\ play_x' = x
            /\ play_w' = w
            /\ UNCHANGED <<stereo_data, play_raised, burst>>
    /\ UNCHANGED <<sm_fields, active_sounds, sound_lock, audio_pc, cb_locals>>

\* Line 498: with self.sound_lock (entry).
PlayAcquireCheck ==
    /\ main_pc = "lock1"
    /\ sound_lock = "free"
    /\ sound_lock' = "main"
    /\ main_pc' = "check"
    /\ UNCHANGED <<sm_fields, active_sounds, play_locals, audio_pc, cb_locals,
                   burst>>

\* The call returns: its arguments and locals are gone.
PlayReturn(ok) ==
    /\ main_pc' = "idle"
    /\ play_x' = 0
    /\ play_w' = 0
    /\ stereo_data' = 0
    /\ play_raised' = "none"
    /\ burst' = BurstAfterCall(ok)

\* Line 525: except Exception catches every exception the body can raise
\* (ZeroDivisionError and ValueError are subclasses of Exception).
Caught(exc) == exc \in {"ZeroDivisionError", "ValueError"}

\* Lines 497-527: exc is raised inside the try block.  The except clause
\* swallows it and the call returns; an exception it does not catch leaves
\* the call.
PlayRaise(exc) ==
    IF Caught(exc)
    THEN PlayReturn(FALSE)
    ELSE /\ main_pc' = "idle"
         /\ play_x' = 0
         /\ play_w' = 0
         /\ stereo_data' = 0
         /\ play_raised' = exc
         /\ burst' = BurstAfterCall(FALSE)

\* Lines 499-501: the ceiling check; leaving the with block releases the lock,
\* on the early return too.
PlayCheck ==
    /\ main_pc = "check"
    /\ sound_lock = "main"
    /\ sound_lock' = "free"
    /\ IF CeilingReached(active_sounds)
       THEN PlayReturn(play_w > 0)
       ELSE /\ main_pc' = "pan"
            /\ UNCHANGED <<play_locals, burst>>
    /\ UNCHANGED <<sm_fields, active_sounds, audio_pc, cb_locals>>

\* Lines 503-519, outside the lock: the pan, its quantization and the cache
\* lookup.  A zero screen width raises ZeroDivisionError, which the except
\* clause of lines 525-527 swallows.
PlayPan ==
    /\ main_pc = "pan"
    /\ IF play_w = 0
       THEN PlayRaise("ZeroDivisionError")
       ELSE LET found == LookupVariant(stereo_cache, QuantizedPan(play_x, play_w))
            IN IF found = {}
               THEN PlayReturn(FALSE)
               ELSE /\ main_pc' = "lock2"
                    /\ stereo_data' = CHOOSE v \in found : TRUE
                    /\ UNCHANGED <<play_x, play_w, play_raised, burst>>
    /\ UNCHANGED <<sm_fields, active_sounds, sound_lock, audio_pc, cb_locals>>

\* An append entered without taking the lock, in place of the definition
\* below.
PlayAppendUnlocked ==
    /\ main_pc = "lock2"
    /\ main_pc' = "append"
    /\ UNCHANGED <<sm_fields, active_sounds, play_locals, audio_pc, cb_locals,
                   burst, sound_lock>>

\* Line 522: with self.sound_lock (entry).
PlayAcquireAppend ==
    /\ main_pc = "lock2"
    /\ sound_lock = "free"
    /\ sound_lock' = "main"
    /\ main_pc' = "append"
    /\ UNCHANGED <<sm_fields, active_sounds, play_locals, audio_pc, cb_locals,
                   burst>>

NewVoiceAtOne(data) == [data |-> data, position |-> 1]

\* Line 523: the new voice, at position 0.
NewVoice(data) == [data |-> data, position |-> 0]

\* Lines 522-523: the append, and the release on leaving the with block.
PlayAppend ==
    /\ main_pc = "append"
    /\ sound_lock = "main"
    /\ active_sounds' = Append(active_sounds, NewVoice(stereo_data))
    /\ sound_lock' = "free"
    /\ PlayReturn(TRUE)
    /\ UNCHANGED <<sm_fields, audio_pc, cb_locals>>

\* Line 437: how much of a voice one pass outputs.
ToOutput(remaining, nframes) == Min(remaining, nframes)

FinishedStrict(position, to_output, len) == position + to_output > len

\* Line 446: whether the voice is finished after the pass.
Finished(position, to_output, len) == position + to_output >= len

\* Line 440: outdata[:to_output] += sound_data[position : position + to_output]
MixInto(out, mono, voice, to_output) ==
    [k \in 1 .. Len(out) |->
        IF k <= to_output
        THEN LET f == StereoFrame(mono, voice.data, voice.position + k)
             IN <<out[k][1] + f[1], out[k][2] + f[2]>>
        ELSE out[k]]

\* Lines 434-447: the loop over enumerate(self.active_sounds), from index i on.
\* st holds the buffer, the list, sounds_to_remove and the to_output of each
\* iteration.
RECURSIVE MixLoop(_, _, _, _)
MixLoop(i, st, mono, nframes) ==
    IF i > Len(st.sounds) THEN st
    ELSE LET voice == st.sounds[i]
             position == voice.position
             remaining == DataLen(mono) - position
             to_output == ToOutput(remaining, nframes)
         IN MixLoop(i + 1,
                    [out |-> MixInto(st.out, mono, voice, to_output),
                     sounds |-> [st.sounds EXCEPT ![i].position = @ + to_output],
                     to_remove |->
                         IF Finished(position, to_output, DataLen(mono))
                         THEN Append(st.to_remove, i) ELSE st.to_remove,
                     to_outputs |-> Append(st.to_outputs, to_output)],
                    mono, nframes)

\* list.pop(i)
Pop(s, i) == SubSeq(s, 1, i - 1) \o SubSeq(s, i + 1, Len(s))

\* The finished voices popped lowest index first, in place of the definition
\* below.
RECURSIVE RemoveFinishedForward(_, _)
RemoveFinishedForward(sounds, to_remove) ==
    IF to_remove = <<>> THEN sounds
    ELSE RemoveFinishedForward(Pop(sounds, Head(to_remove)), Tail(to_remove))

\* Lines 450-451: pop the finished voices, highest index first.
RECURSIVE RemoveFinished(_, _)
RemoveFinished(sounds, to_remove) ==
    IF to_remove = <<>> THEN sounds
    ELSE RemoveFinished(Pop(sounds, to_remove[Len(to_remove)]),
                        SubSeq(to_remove, 1, Len(to_remove) - 1))

\* Lines 425-428: the backend invokes the callback, which zeroes the buffer.
CallbackStart(n) ==
    /\ audio_pc = "idle"
    /\ stream = "started"
    /\ frames' = n
    /\ outdata' = [k \in 1 .. n |-> <<0, 0>>]
    /\ to_outputs' = <<>>
    /\ sounds_to_remove' = <<>>
    /\ audio_pc' = "lock"
    /\ UNCHANGED <<sm_fields, active_sounds, sound_lock, main_pc, play_locals,
                   burst>>

\* Line 430: with self.sound_lock (entry).
CallbackAcquire ==
    /\ audio_pc = "lock"
    /\ sound_lock = "free"
    /\ sound_lock' = "audio"
    /\ audio_pc' = "mix"
    /\ UNCHANGED <<sm_fields, active_sounds, main_pc, play_locals, cb_locals,
                   burst>>

\* A pass that mixes and prunes but returns with the lock still held, in
\* place of the definition below.
CallbackMixKeepsLock ==
    /\ audio_pc = "mix"
    /\ sound_lock = "audio"
    /\ LET st == MixLoop(1, [out |-> outdata, sounds |-> active_sounds,
                             to_remove |-> <<>>, to_outputs |-> <<>>],
                         explosion_sound_data, frames)
       IN /\ outdata' = st.out
          /\ active_sounds' = RemoveFinished(st.sounds, st.to_remove)
          /\ to_outputs' = st.to_outputs
          /\ sounds_to_remove' = st.to_remove
    /\ audio_pc' = "idle"
    /\ burst' = -1
    /\ UNCHANGED <<sm_fields, main_pc, play_locals, frames, sound_lock>>

\* Lines 431-451: the mixing pass and the prune, under the lock, and the
\* release on leaving the with block.
CallbackMix ==
    /\ audio_pc = "mix"
    /\ sound_lock = "audio"
    /\ LET st == MixLoop(1, [out |-> outdata, sounds |-> active_sounds,
                             to_remove |-> <<>>, to_outputs |-> <<>>],
                         explosion_sound_data, frames)
       IN /\ outdata' = st.out
          /\ active_sounds' = RemoveFinished(st.sounds, st.to_remove)
          /\ to_outputs' = st.to_outputs
          /\ sounds_to_remove' = st.to_remove
    /\ sound_lock' = "free"
    /\ audio_pc' = "idle"
    /\ burst' = -1
    /\ UNCHANGED <<sm_fields, main_pc, play_locals, frames>>

\* _start_sound_thread (lines 417-423), called by __init__ when the synthesis
\* succeeded: the flag is set and the thread started.
InitThread ==
    /\ running = enabled
    /\ thread_pc = IF enabled THEN "open" ELSE "none"
    /\ stream = "none"

audio_but_enabled == <<explosion_sound_data, stereo_cache, active_sounds, sound_lock,
                       main_pc, play_locals, audio_pc, cb_locals, burst>>

\* Lines 458-467 and 477-479: the stream is created and started, or one of
\* the two raises and the except clause disables the sound and the thread
\* ends.
ThreadOpen(ok) ==
    /\ thread_pc = "open"
    /\ IF ok
       THEN /\ stream' = "started"
            /\ thread_pc' = "alive"
            /\ UNCHANGED enabled
       ELSE /\ enabled' = FALSE
            /\ thread_pc' = "exited"
            /\ UNCHANGED stream
    /\ UNCHANGED <<running, audio_but_enabled>>

\* A keep-alive loop that tests self.enabled, in place of the definition
\* below.
ThreadLoopExitOnDisabled ==
    /\ thread_pc = "alive"
    /\ ~enabled
    /\ thread_pc' = "stopping"
    /\ UNCHANGED <<running, stream, audio_vars>>

\* Lines 470-471: the keep-alive loop finds the flag cleared and ends (while
\* the flag is set it sleeps and tests again, which changes nothing).
ThreadLoopExit ==
    /\ thread_pc = "alive"
    /\ ~running
    /\ thread_pc' = "stopping"
    /\ UNCHANGED <<running, stream, audio_vars>>

\* Line 474: stream.stop()
ThreadStopStream ==
    /\ thread_pc = "stopping"
    /\ stream' = "stopped"
    /\ thread_pc' = "closing"
    /\ UNCHANGED <<running, audio_vars>>

\* Line 475: stream.close(), and the thread ends.
ThreadCloseStream ==
    /\ thread_pc = "closing"
    /\ stream' = "closed"
    /\ thread_pc' = "exited"
    /\ UNCHANGED <<running, audio_vars>>

NextAudio ==
    \/ \E in \in PlayInputs : PlayCall(in[1], in[2])
    \/ PlayAcquireCheck
    \/ PlayCheck
    \/ PlayPan
    \/ PlayAcquireAppend
    \/ PlayAppend
    \/ \E n \in 1 .. MaxFrames : CallbackStart(n)
    \/ CallbackAcquire
    \/ CallbackMix

\* The SoundManager with its thread opening the stream.
NextManager ==
    \/ NextAudio /\ UNCHANGED thread_vars
    \/ \E ok \in BOOLEAN : ThreadOpen(ok)

\* play_explosion alone, over many positions and widths and over caches with
\* variants missing.  x is in thousandths of a pixel, at whole pixels from 2
\* left of the screen to 2 right of it: on a screen 32 wide these give every
\* bucket and every midpoint between two buckets.
PanWidths == {0, 16, 32, 158}
PanInputs == {in \in {<<1000 * k, w>> : k \in -2 .. 160, w \in PanWidths} :
                 in[1] <= 1000 * (in[2] + 2)}
PanCaches == {PanKeys, {0}, {125, 1000}}

InitPanAudio ==
    /\ enabled = TRUE
    /\ stereo_cache \in PanCaches
    /\ InitManager

NextPan ==
    \/ \E in \in PanInputs : Len(active_sounds) < MaxPanCalls /\ PlayCall(in[1], in[2])
    \/ PlayAcquireCheck
    \/ PlayCheck
    \/ PlayPan
    \/ PlayAcquireAppend
    \/ PlayAppend

\* A call that tests the cache but not the enabled flag, in place of the
\* definition below.
PlayExplosionIgnoringEnabled(sounds, x, w) ==
    IF stereo_cache = {} THEN sounds
    ELSE IF Len(sounds) >= max_concurrent_sounds THEN sounds
    ELSE IF w = 0 THEN sounds
    ELSE Append(sounds, [data |-> 0, position |-> 0])

\* Lines 487-527 run without interruption: the list a whole play_explosion
\* call leaves when no callback runs during it.
PlayExplosionUninterrupted(sounds, x, w) ==
    IF ~enabled \/ stereo_cache = {} THEN sounds
    ELSE IF CeilingReached(sounds) THEN sounds
    ELSE IF w = 0 THEN sounds
    ELSE LET found == LookupVariant(stereo_cache, QuantizedPan(x, w))
         IN IF found = {} THEN sounds
            ELSE Append(sounds, NewVoice(CHOOSE v \in found : TRUE))

-----------------------------------------------------------------------------
(* Particle (src/main.py 611-708) *)

\* Lines 614-642
Particle(x, y, z, vx, vy, vz, color, lifetime) ==
    [x |-> x, y |-> y, z |-> z, vx |-> vx, vy |-> vy, vz |-> vz,
     color |-> color, lifetime |-> lifetime, age |-> 0]

\* v * air_resistance for air_resistance = percent / 100, rounded to the
\* model's velocity unit (the source multiplies floats).
Damped(v, percent) == RoundHalfEven(v * percent, 100)

\* Lines 644-669: Particle.update(dt, gravity, air_resistance); gravity in
\* pixels / s^2, air_resistance in percent.
ParticleUpdate(p, dt, gravity, air_resistance) ==
    LET vy1 == p.vy + gravity * 10 * dt
        vx2 == Damped(p.vx, air_resistance)
        vy2 == Damped(vy1, air_resistance)
        vz2 == Damped(p.vz, air_resistance)
    IN [p EXCEPT !.vx = vx2, !.vy = vy2, !.vz = vz2,
                 !.x = @ + vx2 * dt, !.y = @ + vy2 * dt, !.z = @ + vz2 * dt,
                 !.age = @ + dt]

is_alive_inclusive(p) == p.age <= p.lifetime

\* Lines 671-673
is_alive(p) == p.age < p.lifetime

\* The Particle under test: constructed with some lifetime of the range
\* explode() draws from (1.6 .. 2.7 s), then updated and asked is_alive().
InitProbe ==
    /\ probe = Particle(0, 0, 0, 0, 0, 0, 1, 16)
    /\ probe_alive = TRUE

ProbeNew(lifetime) ==
    /\ probe' = Particle(0, 0, 0, 14000, 0, 0, 1, lifetime)
    /\ probe_alive' = is_alive(probe')

ProbeUpdate(dt) ==
    /\ probe.age + dt <= MaxAge
    /\ probe' = ParticleUpdate(probe, dt, 50, 97)
    /\ probe_alive' = is_alive(probe')

NextProbe ==
    \/ \E lifetime \in {16, 20, 27} : ProbeNew(lifetime)
    \/ \E dt \in {2, 5} : ProbeUpdate(dt)

-----------------------------------------------------------------------------
(* Firework (src/main.py 711-910) *)

\* The canvas of the fallback terminal size 80 x 24 (lines 943, 949, 950).
canvas_width == 158
canvas_height == 92

\* What Firework.__init__ draws at random (lines 735-748): the launch x, the
\* depth ahead of the camera, the drift vx, the upward velocity vy (always
\* within -195 .. -156 pixels / s) and the color.
FireworkDraws ==
    {[x |-> 31600, dz |-> 50000, vx |-> -2000, vy |-> -19500, color |-> 1],
     [x |-> 126400, dz |-> 300000, vx |-> 2000, vy |-> -16000, color |-> 6],
     [x |-> 79000, dz |-> 56500, vx |-> 0, vy |-> -19500, color |-> 3]}

\* Lines 730-758
Firework(draw, cam, id) ==
    [id |-> id,
     color |-> draw.color,
     x |-> draw.x, y |-> (canvas_height - 1) * 1000, z |-> cam + draw.dz,
     vx |-> draw.vx, vy |-> draw.vy,
     exploded |-> FALSE,
     particles |-> EmptyBag,
     apex_reached |-> FALSE,
     time_since_apex |-> 0,
     launch_trail |-> <<>>,
     num_particles |-> 0,      \* explode's local, kept
     explode_calls |-> 0]      \* history: how often explode() ran

\* The six axis directions (sin phi cos theta, cos phi, sin phi sin theta).
Directions == <<<<0, 1, 0>>, <<1, 0, 0>>, <<0, 0, 1>>,
                <<0, -1, 0>>, <<-1, 0, 0>>, <<0, 0, -1>>>>

\* What explode() draws at random (lines 821-837): the particle count
\* (450 .. 750), the common speed (140 .. 210 pixels / s) and, per particle,
\* a direction and a lifetime (base 1.8 .. 2.5 s plus -0.2 .. 0.2 s, in tenths
\* of a second).  `kinds` lists the <<direction, lifetime>> pairs drawn:
\* particle i gets kinds[(i mod Len(kinds)) + 1].
ExplosionDraws ==
    {[num_particles |-> 450, speed |-> 14000, kinds |-> <<<<1, 16>>>>],
     [num_particles |-> 450, speed |-> 21000,
      kinds |-> <<<<1, 16>>, <<2, 20>>, <<3, 27>>, <<4, 16>>, <<5, 20>>, <<6, 27>>>>],
     [num_particles |-> 750, speed |-> 21000,
      kinds |-> <<<<4, 27>>, <<2, 20>>, <<6, 16>>, <<1, 20>>>>]}

\* Lines 824-842 for one i.
BurstParticle(f, ex, i) ==
    LET kind == ex.kinds[(i % Len(ex.kinds)) + 1]
        d == Directions[kind[1]]
    IN Particle(f.x, f.y, f.z, ex.speed * d[1], ex.speed * d[2], ex.speed * d[3],
                f.color, kind[2])

\* How many i of range(n) are congruent to r modulo m.
CountCongruent(n, r, m) == IF n <= r THEN 0 ELSE (n - r + m - 1) \div m

\* How many i of range(n) are congruent modulo m to some member of R.
RECURSIVE CountResidues(_, _, _)
CountResidues(n, R, m) ==
    IF R = {} THEN 0
    ELSE LET r == CHOOSE r \in R : TRUE
         IN CountCongruent(n, r, m) + CountResidues(n, R \ {r}, m)

\* The bag of BurstParticle(f, ex, i) for i in range(n).  BurstParticle depends
\* on i through i mod Len(ex.kinds) only, so the copies are counted per residue.
BurstOf(f, ex, n) ==
    LET m == Len(ex.kinds)
        made == {BurstParticle(f, ex, r) : r \in {r \in 0 .. m - 1 : r < n}}
    IN [p \in made |->
           CountResidues(n, {r \in 0 .. m - 1 : BurstParticle(f, ex, r) = p}, m)]

BurstOneShort(f, ex) == BurstOf(f, ex, ex.num_particles - 1)

\* Lines 824-842: the particles of range(num_particles), as a bag (the order
\* of self.particles is never observed: one firework's particles share a color).
Burst(f, ex) == BurstOf(f, ex, ex.num_particles)

ExplodeKeepsPhase(f, ex) ==
    [f EXCEPT !.num_particles = ex.num_particles,
              !.particles = @ (+) Burst(f, ex),
              !.explode_calls = @ + 1]

\* Lines 812-842: explode(), but for the play_explosion call (see Explodes).
Explode(f, ex) ==
    [f EXCEPT !.exploded = TRUE,
              !.num_particles = ex.num_particles,
              !.particles = @ (+) Burst(f, ex),
              !.explode_calls = @ + 1]

\* A launch in which the apex is never latched, in place of LaunchStep.
LaunchStepNoLatch(f, dt) ==
    LET vy1 == f.vy + 1000 * dt
        x1 == f.x + f.vx * dt
        y1 == f.y + vy1 * dt
        trail1 == Append(f.launch_trail, <<x1, y1>>)
    IN [f EXCEPT !.vy = vy1, !.x = x1, !.y = y1,
                 !.launch_trail = IF Len(trail1) > 15 THEN Tail(trail1) ELSE trail1]

\* A launch phase that lets the trail grow to 16 positions, in place of the
\* definition below.
LaunchStepLongTrail(f, dt) ==
    LET vy1 == f.vy + 1000 * dt
        x1 == f.x + f.vx * dt
        y1 == f.y + vy1 * dt
        trail1 == Append(f.launch_trail, <<x1, y1>>)
        apex1 == f.apex_reached \/ vy1 > 0
    IN [f EXCEPT !.vy = vy1, !.x = x1, !.y = y1,
                 !.launch_trail = IF Len(trail1) > 16 THEN Tail(trail1) ELSE trail1,
                 !.apex_reached = apex1,
                 !.time_since_apex = IF apex1 THEN @ + dt ELSE @]

\* A launch phase that latches the apex at a velocity of zero, in place of
\* the definition below.
LaunchStepLatchAtZero(f, dt) ==
    LET vy1 == f.vy + 1000 * dt
        x1 == f.x + f.vx * dt
        y1 == f.y + vy1 * dt
        trail1 == Append(f.launch_trail, <<x1, y1>>)
        apex1 == f.apex_reached \/ vy1 >= 0
    IN [f EXCEPT !.vy = vy1, !.x = x1, !.y = y1,
                 !.launch_trail = IF Len(trail1) > 15 THEN Tail(trail1) ELSE trail1,
                 !.apex_reached = apex1,
                 !.time_since_apex = IF apex1 THEN @ + dt ELSE @]

\* Lines 785-801: the launch phase up to the explosion test.
LaunchStep(f, dt) ==
    LET vy1 == f.vy + 1000 * dt
        x1 == f.x + f.vx * dt
        y1 == f.y + vy1 * dt
        trail1 == Append(f.launch_trail, <<x1, y1>>)
        apex1 == f.apex_reached \/ vy1 > 0
    IN [f EXCEPT !.vy = vy1, !.x = x1, !.y = y1,
                 !.launch_trail = IF Len(trail1) > 15 THEN Tail(trail1) ELSE trail1,
                 !.apex_reached = apex1,
                 !.time_since_apex = IF apex1 THEN @ + dt ELSE @]

\* Line 802: whether this update calls explode().
Explodes(f, dt) ==
    /\ ~f.exploded
    /\ LaunchStep(f, dt).apex_reached
    /\ LaunchStep(f, dt).time_since_apex >= 10

\* Lines 805-810: the particles updated, the dead ones dropped.
ExplodedStep(f, dt) ==
    LET moved == BagOfAll(LAMBDA p : ParticleUpdate(p, dt, 50, 97), f.particles)
    IN [f EXCEPT !.particles = [p \in {q \in DOMAIN moved : is_alive(q)} |-> moved[p]]]

\* Lines 776-810: Firework.update(dt); ex is what explode() draws if it runs.
FireworkUpdate(f, dt, ex) ==
    IF ~f.exploded
    THEN IF Explodes(f, dt) THEN Explode(LaunchStep(f, dt), ex)
         ELSE LaunchStep(f, dt)
    ELSE ExplodedStep(f, dt)

\* Lines 908-910
is_finished(f) == f.exploded /\ BagCardinality(f.particles) = 0

-----------------------------------------------------------------------------
(* fireworks(): the frame loop (src/main.py 937-1067) *)

InitLoop ==
    /\ fireworks = <<>>
    /\ camera_z = 0
    /\ elapsed = 0
    /\ last_spawn_time = 0
    /\ spawn_interval = 10
    /\ midnight_reached = FALSE
    /\ loop_pc = "running"
    /\ spawned = 0
    /\ updated = <<>>
    /\ frame_log = <<>>
    /\ written = <<>>
    /\ stop_pc = "idle"
    /\ teardown = <<>>

\* No key is waiting when the loop starts.
InitSim == InitLoop /\ stdin = <<>> /\ tracked = 0

\* The frame times tried, in tenths of a second (the loop sleeps until at
\* least 1 / 60 s have passed and never shortens a longer frame).
DtChoices == {4, 10}

\* The keys is_key_pressed may return; "" is no key, "^C" the character \x03.
Keys == {"", " ", "q", "^C"}

\* The draw passed to an update that does not explode.
NoExplosion == CHOOSE ex \in ExplosionDraws : TRUE

\* Lines 1030-1031 from index i on: every firework updated in list order; an
\* exploding one calls play_explosion(self.x, self.canvas_width) (line 818).
RECURSIVE UpdateAll(_, _, _, _, _)
UpdateAll(i, fws, sounds, dt, exs) ==
    IF i > Len(fws) THEN [fws |-> fws, sounds |-> sounds]
    ELSE IF Explodes(fws[i], dt)
         THEN UpdateAll(i + 1,
                        [fws EXCEPT ![i] = FireworkUpdate(@, dt, exs[i])],
                        PlayExplosionUninterrupted(sounds, LaunchStep(fws[i], dt).x,
                                                   canvas_width),
                        dt, exs)
         ELSE UpdateAll(i + 1,
                        [fws EXCEPT ![i] = FireworkUpdate(@, dt, NoExplosion)],
                        sounds, dt, exs)

\* A filter that keeps the firework exactly at the margin, in place of the
\* definition below.
KeptAtMargin(f, cam) == ~is_finished(f) /\ f.z - cam >= -50000

\* Lines 1034-1036: the fireworks kept by the filter.
Kept(f, cam) == ~is_finished(f) /\ f.z - cam > -50000

\* An automatic spawn that does not look at the gate, in place of the
\* definition below.
AutoSpawnUngated(dt, gate) == (elapsed + dt) - last_spawn_time > spawn_interval

\* Line 1022: whether this iteration spawns automatically.
AutoSpawn(dt, gate) == gate /\ (elapsed + dt) - last_spawn_time > spawn_interval

\* Line 1055: output = "\033[H" + canvas.render(), the cursor-home sequence and
\* the text render returned.
FrameOutput(frame) == <<"home", frame>>

\* Two prints, of the cursor-home sequence and of the frame, in place of the
\* line below.
FrameWritesInParts(frame) == << <<"home">>, <<frame>> >>

\* Line 1056: the one print of an iteration.
FrameWrites(frame) == << FrameOutput(frame) >>

\* Lines 1039-1056 in order: canvas.clear, firework.render for every
\* firework, render_countdown_on_canvas, canvas.render, print.
FrameStages == <<"clear", "fireworks", "overlay", "render", "write">>

\* What an iteration may meet: nothing, or the print of line 1056 raising
\* (OSError from a closed or broken stdout, UnicodeEncodeError from an
\* encoding without the Braille block).
TickFaults == {"none", "write"}

\* Lines 992-1056: one iteration of the loop.  key is the key polled, gate the
\* flag the countdown returns, d1 and d2 the draws of a manual and of an
\* automatic spawn, iv the next spawn interval drawn, fault what the
\* iteration meets.  No except clause inside the loop or around it catches
\* what print raises (line 1058 names KeyboardInterrupt alone): the exception
\* leaves the loop.
Tick(dt, key, gate, d1, d2, iv, fault) ==
    /\ loop_pc = "running"
    /\ elapsed + dt <= MaxTime
    /\ elapsed' = elapsed + dt
    /\ IF key \in {"q", "^C"}
       THEN /\ loop_pc' = "stopped"
            /\ frame_log' = <<>>
            /\ written' = <<>>
            /\ UNCHANGED <<fireworks, camera_z, last_spawn_time, spawn_interval,
                           midnight_reached, spawned, updated, active_sounds>>
       ELSE LET manual == key = " "
                fws0 == IF manual
                        THEN Append(fireworks, Firework(d1, camera_z, spawned + 1))
                        ELSE fireworks
                n0 == IF manual THEN spawned + 1 ELSE spawned
                cam == camera_z + 1500 * dt
                auto == AutoSpawn(dt, gate)
                fws1 == IF auto THEN Append(fws0, Firework(d2, cam, n0 + 1)) ELSE fws0
                n1 == IF auto THEN n0 + 1 ELSE n0
                exploding == {i \in DOMAIN fws1 : Explodes(fws1[i], dt)}
            IN /\ n1 <= MaxSpawns
               /\ \E exs \in [exploding -> ExplosionDraws] :
                    LET res == UpdateAll(1, fws1, active_sounds, dt, exs)
                    IN /\ updated' = res.fws
                       /\ fireworks' = SelectSeq(res.fws, LAMBDA f : Kept(f, cam))
                       /\ active_sounds' = res.sounds
               /\ camera_z' = cam
               /\ midnight_reached' = gate
               /\ last_spawn_time' = IF auto THEN elapsed' ELSE last_spawn_time
               /\ spawn_interval' = iv
               /\ spawned' = n1
               /\ IF fault = "none"
                  THEN /\ frame_log' = FrameStages
                       /\ written' = FrameWrites("frame")
                       /\ UNCHANGED loop_pc
                  ELSE /\ frame_log' = SubSeq(FrameStages, 1, Len(FrameStages) - 1)
                       /\ written' = <<>>
                       /\ loop_pc' = "failed"
    /\ UNCHANGED <<sm_fields, sound_lock, main_pc, play_locals, audio_pc,
                   cb_locals, burst, thread_vars, life_vars, not_loop_vars>>

\* The draws an iteration makes: a Firework's only if one is constructed, the
\* next interval (0.2 .. 0.8 s, line 1027) only after an automatic spawn.
NoDraw == CHOOSE d \in FireworkDraws : TRUE
ManualDraws(key) == IF key = " " THEN FireworkDraws ELSE {NoDraw}
AutoDraws(dt, gate) == IF AutoSpawn(dt, gate) THEN FireworkDraws ELSE {NoDraw}
IntervalDraws(dt, gate) == IF AutoSpawn(dt, gate) THEN {2, 8} ELSE {spawn_interval}

\* The gate the countdown may return: it opens when the wall clock passes the
\* target time and stays open.
Gates == IF midnight_reached THEN {TRUE} ELSE BOOLEAN

\* How many Firework objects an iteration constructs (lines 1005-1009 and
\* 1022-1025; none when the quit key ends the loop at line 1010).
SpawnsOf(dt, key, gate) ==
    IF key \in {"q", "^C"} THEN 0
    ELSE (IF key = " " THEN 1 ELSE 0) + (IF AutoSpawn(dt, gate) THEN 1 ELSE 0)

NextSim ==
    \E dt \in DtChoices, key \in Keys, gate \in Gates :
        \E d1 \in ManualDraws(key), d2 \in AutoDraws(dt, gate),
           iv \in IntervalDraws(dt, gate) :
            /\ elapsed + dt <= SimTime
            /\ spawned + SpawnsOf(dt, key, gate) <= SimSpawns
            /\ Tick(dt, key, gate, d1, d2, iv, "none")

\* Lines 913-934: is_key_pressed() returns the first of the keys waiting,
\* read(1), or "" when select finds none; the others stay where they are.
is_key_pressed(waiting) == IF waiting = <<>> THEN "" ELSE Head(waiting)
AfterKeyPressed(waiting) == IF waiting = <<>> THEN <<>> ELSE Tail(waiting)

\* The keys that may be waiting when the loop starts: the ones the loop
\* knows and one it ignores.
TypedKeys == {" ", "q", "^C", "x"}
RECURSIVE KeySeqs(_)
KeySeqs(n) ==
    IF n = 0 THEN {<<>>}
    ELSE KeySeqs(n - 1) \cup {Append(ks, k) : ks \in KeySeqs(n - 1), k \in TypedKeys}

\* The same iterations, followed for a shorter time with more spawns, the
\* key of each iteration being what is_key_pressed finds on sys.stdin.
NextGate ==
    \E dt \in DtChoices, gate \in Gates :
        LET key == is_key_pressed(stdin)
        IN \E d1 \in ManualDraws(key), d2 \in AutoDraws(dt, gate),
              iv \in IntervalDraws(dt, gate) :
               /\ elapsed + dt <= GateTime
               /\ Tick(dt, key, gate, d1, d2, iv, "none")
               /\ stdin' = AfterKeyPressed(stdin)
               /\ UNCHANGED tracked

\* Frames that take seconds (a stalled terminal, a suspended process): the
\* loop never shortens a frame, dt is whatever time has passed.
SlowDts == {19, 26}
SpawnKeys == {"", " "}
NextSlow ==
    \E dt \in SlowDts, key \in SpawnKeys :
        \E d1 \in ManualDraws(key) :
            /\ spawned + SpawnsOf(dt, key, FALSE) <= SimSpawns
            /\ Tick(dt, key, FALSE, d1, NoDraw, spawn_interval, "none")

\* Frames of a tenth of a second, the shortest the model's unit of time
\* allows (the loop's own floor is 1 / 60 s).
FastDt == 1
NextFast ==
    \E key \in SpawnKeys :
        \E d1 \in ManualDraws(key) :
            /\ elapsed + FastDt <= FastTime
            /\ spawned + SpawnsOf(FastDt, key, FALSE) <= SimSpawns
            /\ Tick(FastDt, key, FALSE, d1, NoDraw, spawn_interval, "none")

\* KeyboardInterrupt reaches the main context inside the try block: line 1058
\* catches it and the loop is left.  (What the interrupted iteration had done
\* is read by nothing afterwards.)
Interrupt ==
    /\ loop_pc = "running"
    /\ loop_pc' = "interrupted"
    /\ UNCHANGED <<fireworks, camera_z, elapsed, last_spawn_time, spawn_interval,
                   midnight_reached, spawned, updated, frame_log, written>>
    /\ UNCHANGED <<audio_vars, thread_vars, life_vars, not_loop_vars>>

\* A finally block that restores the terminal before it stops the sound, in
\* place of the line below.
TeardownNextRestoreFirst(done) ==
    IF done = <<>> THEN "restore"
    ELSE IF done = <<"restore">> THEN "stop" ELSE "leave"

\* Lines 1061-1067: the statement of the finally block that follows the ones
\* done.  (Line 1065 restores the configuration saved at line 982; on win32
\* nothing was saved and the statement is skipped.)
TeardownNext(done) ==
    IF done = <<>> THEN "stop"
    ELSE IF done = <<"stop">> THEN "restore" ELSE "leave"

\* The finally block is entered once, however the loop was left, and each of
\* its statements runs once.
InFinally(statement) ==
    /\ loop_pc # "running"
    /\ Len(teardown) < 3
    /\ stop_pc # "join"
    /\ TeardownNext(teardown) = statement

\* Lines 1062 and 481-485: stop() clears the flag and, when a thread was
\* started, goes on to join it; with no thread it returns.
StopCall ==
    /\ InFinally("stop")
    /\ stop_pc = "idle"
    /\ running' = FALSE
    /\ IF thread_pc # "none"
       THEN stop_pc' = "join" /\ UNCHANGED teardown
       ELSE stop_pc' = "returned" /\ teardown' = Append(teardown, "stop")
    /\ UNCHANGED <<thread_pc, stream, audio_vars, sim_vars, not_loop_vars>>

\* Line 485: join(timeout=1.0) returns, because the thread has ended or
\* because the second has passed, and stop() returns.
StopJoinReturn ==
    /\ stop_pc = "join"
    /\ stop_pc' = "returned"
    /\ teardown' = Append(teardown, "stop")
    /\ UNCHANGED <<audio_vars, thread_vars, sim_vars, not_loop_vars>>

\* Lines 1064-1065: termios.tcsetattr(sys.stdin, TCSADRAIN, old_settings)
TeardownRestore ==
    /\ InFinally("restore")
    /\ teardown' = Append(teardown, "restore")
    /\ UNCHANGED <<stop_pc, audio_vars, thread_vars, sim_vars, not_loop_vars>>

\* Line 1067: the print that leaves the alternate screen and shows the cursor.
TeardownLeave ==
    /\ InFinally("leave")
    /\ teardown' = Append(teardown, "leave")
    /\ UNCHANGED <<stop_pc, audio_vars, thread_vars, sim_vars, not_loop_vars>>

\* The frame loop of a short run, with the sound thread beside it and the
\* finally block after it: iterations of one second, a key or none, the
\* countdown gate closed.
LoopKeys == {"", " ", "q"}
NextLoop ==
    \/ \E key \in LoopKeys, fault \in TickFaults :
         \E d1 \in ManualDraws(key) :
             /\ elapsed + 10 <= SimTime
             /\ spawned + SpawnsOf(10, key, FALSE) <= SimSpawns
             /\ Tick(10, key, FALSE, d1, NoDraw, spawn_interval, fault)
    \/ Interrupt
    \/ \E ok \in BOOLEAN :
         ThreadOpen(ok) /\ UNCHANGED <<sim_vars, life_vars, not_loop_vars>>
    \/ ThreadLoopExit /\ UNCHANGED <<sim_vars, life_vars, not_loop_vars>>
    \/ ThreadStopStream /\ UNCHANGED <<sim_vars, life_vars, not_loop_vars>>
    \/ ThreadCloseStream /\ UNCHANGED <<sim_vars, life_vars, not_loop_vars>>
    \/ StopCall
    \/ StopJoinReturn
    \/ TeardownRestore
    \/ TeardownLeave

-----------------------------------------------------------------------------
(* BrailleCanvas (src/braille_canvas.py)                                     *)
(*                                                                           *)
(* A color is an int (an index into COLORS) or a str (an escape sequence     *)
(* made by rgb_color); the model writes <<"int", i>> for the first and       *)
(* <<"str", 38, 2, r, g, b>>, the parameters of the sequence, for the        *)
(* second.  Rendered text is a sequence of tokens: <<"sgr", ...>> for an     *)
(* escape sequence ESC [ ... m, <<"chr", n>> for the character of code       *)
(* point n and <<"crdown">> for the row separator.                           *)

BRAILLE_OFFSET == 10240

\* BRAILLE_DOTS[dot_y][dot_x], with the 1-based indices of TLA+ sequences.
BRAILLE_DOTS == << <<0, 3>>, <<1, 4>>, <<2, 5>>, <<6, 7>> >>

RESET == <<"sgr", 0>>

\* COLORS[i] is ESC [ 3i m.
COLORS == [i \in 0..7 |-> <<"sgr", 30 + i>>]

rgb_color(r, g, b) == <<"str", 38, 2, r, g, b>>

IsInt(color) == color[1] = "int"

\* current_color = None in render.
None == <<>>

\* x >> 1 and y >> 2, x & 1 and y & 3, for the non-negative x, y of plot.
CharX(x) == x \div 2
CharY(y) == y \div 4
DotX(x) == x % 2
DotY(y) == y % 4
\* The dots numbered down the columns instead.
bit_pos_by_columns(x, y) == DotX(x) * 4 + DotY(y)
bit_pos(x, y) == BRAILLE_DOTS[DotY(y) + 1][DotX(x) + 1]

Pow2(b) == 2 ^ b
HasBit(val, b) == (val \div Pow2(b)) % 2 = 1

\* current_val ^ (1 << bit_pos), in place of the line below.
XorBit(val, b) == IF HasBit(val, b) THEN val - Pow2(b) ELSE val + Pow2(b)

\* current_val | (1 << bit_pos)
OrBit(val, b) == IF HasBit(val, b) THEN val ELSE val + Pow2(b)

\* The buffer clear builds.
Cleared(cw, ch, color) ==
    [r \in 1..ch |-> [c \in 1..cw |-> [mask |-> 0, color |-> color]]]

\* A test that lets x = width and y = height through, in place of the line
\* below.
InBoundsInclusive(w, h, p) == 0 <= p[1] /\ p[1] <= w /\ 0 <= p[2] /\ p[2] <= h

\* Line 95: the bounds test.
InBounds(w, h, p) == 0 <= p[1] /\ p[1] < w /\ 0 <= p[2] /\ p[2] < h

\* An iteration that leaves the color of a cell that already has dots, in
\* place of the definition below.
PlotPointKeepsColor(buf, w, h, color, p) ==
    IF InBounds(w, h, p)
    THEN LET r == CharY(p[2]) + 1
             c == CharX(p[1]) + 1
         IN [buf EXCEPT ![r][c] =
                 [mask |-> OrBit(@.mask, bit_pos(p[1], p[2])),
                  color |-> IF @.mask = 0 THEN color ELSE @.color]]
    ELSE buf

\* One iteration of plot's loop.
PlotPoint(buf, w, h, color, p) ==
    IF InBounds(w, h, p)
    THEN LET r == CharY(p[2]) + 1
             c == CharX(p[1]) + 1
         IN [buf EXCEPT ![r][c] =
                 [mask |-> OrBit(@.mask, bit_pos(p[1], p[2])), color |-> color]]
    ELSE buf

\* plot's loop over points, from the i-th on.
RECURSIVE PlotFrom(_, _, _, _, _, _)
PlotFrom(buf, w, h, color, points, i) ==
    IF i > Len(points) THEN buf
    ELSE PlotFrom(PlotPoint(buf, w, h, color, points[i]), w, h, color, points, i + 1)

Plot(buf, w, h, color, points) == PlotFrom(buf, w, h, color, points, 1)

\* _bresenham_line: the frame at the first yield.
Abs(n) == IF n < 0 THEN -n ELSE n
LineDx(a) == Abs(a[3] - a[1])
LineDy(a) == Abs(a[4] - a[2])
LineSx(a) == IF a[1] < a[3] THEN 1 ELSE -1
LineSy(a) == IF a[2] < a[4] THEN 1 ELSE -1
LineFirst(a) == [x |-> a[1], y |-> a[2], err |-> LineDx(a) - LineDy(a)]

\* A test of x alone, in place of the line below.
LineAtEndOfX(g, a) == g.x = a[3]

\* The test that leaves the loop.
LineAtEnd(g, a) == g.x = a[3] /\ g.y = a[4]

\* The rest of the loop body, up to the next yield.
LineAdvance(g, a) ==
    LET e2 == 2 * g.err
        stepx == e2 > -LineDy(a)
        stepy == e2 < LineDx(a)
        err1 == IF stepx THEN g.err - LineDy(a) ELSE g.err
    IN [x |-> IF stepx THEN g.x + LineSx(a) ELSE g.x,
        y |-> IF stepy THEN g.y + LineSy(a) ELSE g.y,
        err |-> IF stepy THEN err1 + LineDx(a) ELSE err1]

\* The generator run to exhaustion from frame g, as line's plot consumes it.
RECURSIVE LinePointsFrom(_, _)
LinePointsFrom(g, a) ==
    IF LineAtEnd(g, a) THEN << <<g.x, g.y>> >>
    ELSE << <<g.x, g.y>> >> \o LinePointsFrom(LineAdvance(g, a), a)

bresenham_line(a) == LinePointsFrom(LineFirst(a), a)

\* render: the escape sequence emitted for a color.
ColorCode(color) ==
    IF IsInt(color) THEN COLORS[color[2]] ELSE <<"sgr">> \o Tail(color)

\* render: a switch at every cell, in place of the line below.
SwitchAlways(color, current_color) == TRUE

\* render: "only change color if needed".
SwitchNeeded(color, current_color) == color # current_color

\* render: one row, from cell i on, with current_color and line_parts so far.
RECURSIVE RenderRow(_, _, _, _)
RenderRow(row, i, current_color, line_parts) ==
    IF i > Len(row)
    THEN IF current_color # None THEN Append(line_parts, RESET) ELSE line_parts
    ELSE LET cell == row[i]
             switch == SwitchNeeded(cell.color, current_color)
             p1 == IF switch /\ current_color # None
                   THEN Append(line_parts, RESET) ELSE line_parts
             p2 == IF switch THEN Append(p1, ColorCode(cell.color)) ELSE p1
         IN RenderRow(row, i + 1, cell.color,
                      Append(p2, <<"chr", BRAILLE_OFFSET + cell.mask>>))

\* '\r\033[B'.join(lines)
RECURSIVE Join(_, _)
Join(lines, i) ==
    IF i > Len(lines) THEN <<>>
    ELSE IF i = 1 THEN lines[1] \o Join(lines, 2)
    ELSE << <<"crdown">> >> \o lines[i] \o Join(lines, i + 1)

Render(buf) == Join([r \in 1..Len(buf) |-> RenderRow(buf[r], 1, None, <<>>)], 1)

\* __init__(4, 8): the canvas as constructed, default_color = 7.
InitCanvas ==
    /\ width = 4
    /\ height = 8
    /\ char_width = (4 + 1) \div 2
    /\ char_height = (8 + 3) \div 4
    /\ buffer = Cleared((4 + 1) \div 2, (8 + 3) \div 4, <<"int", 7>>)
    /\ default_color = <<"int", 7>>
    /\ rendered = <<>>
    /\ canvas_op = [op |-> "new", color |-> <<"int", 7>>, points |-> << <<4, 8>> >>]
    /\ canvas_calls = 0

\* The arguments the calls are made with.
CanvasSizes == {<<4, 8>>, <<3, 5>>, <<1, 1>>, <<0, 4>>, <<5, 2>>}
CanvasColors == {<<"int", 0>>, <<"int", 7>>, rgb_color(255, 0, 0)}
DrawColors == {<<"int", 7>>, rgb_color(255, 0, 0)}
CellPixels == {<<x, y>> : x \in 0..1, y \in 0..3}
PlotInputs ==
    {<<p>> : p \in CellPixels}
        \cup {<<>>, << <<2, 4>> >>, << <<3, 7>> >>, << <<1, 2>>, <<1, 2>> >>,
              << <<-1, 0>>, <<3, 1>> >>, << <<4, 8>>, <<2, 1>>, <<0, -1>> >>,
              << <<1, 2>>, <<2, 1>> >>}
LineInputs == {<<0, 0, 3, 7>>, <<3, 0, 0, 2>>, <<-2, 5, 5, 5>>, <<1, 6, 1, 6>>}

CanvasCalled(op, color, points) ==
    /\ canvas_calls < MaxCanvasCalls
    /\ canvas_calls' = canvas_calls + 1
    /\ canvas_op' = [op |-> op, color |-> color, points |-> points]

\* BrailleCanvas(w, h, color)
CanvasNew(size, color) ==
    /\ CanvasCalled("new", color, <<size>>)
    /\ width' = size[1]
    /\ height' = size[2]
    /\ char_width' = (size[1] + 1) \div 2
    /\ char_height' = (size[2] + 3) \div 4
    /\ buffer' = Cleared(char_width', char_height', color)
    /\ default_color' = color
    /\ rendered' = <<>>

\* clear(color)
CanvasClear(color) ==
    /\ CanvasCalled("clear", color, <<>>)
    /\ buffer' = Cleared(char_width, char_height, color)
    /\ default_color' = color
    /\ rendered' = <<>>
    /\ UNCHANGED <<width, height, char_width, char_height>>

\* plot(color, points)
CanvasPlot(color, points) ==
    /\ CanvasCalled("plot", color, points)
    /\ buffer' = Plot(buffer, width, height, color, points)
    /\ rendered' = <<>>
    /\ UNCHANGED <<width, height, char_width, char_height, default_color>>

\* line(x0, y0, x1, y1, color)
CanvasLine(a, color) ==
    /\ CanvasCalled("line", color, << <<a[1], a[2]>>, <<a[3], a[4]>> >>)
    /\ buffer' = Plot(buffer, width, height, color, bresenham_line(a))
    /\ rendered' = <<>>
    /\ UNCHANGED <<width, height, char_width, char_height, default_color>>

\* render()
CanvasRender ==
    /\ CanvasCalled("render", None, <<>>)
    /\ rendered' = Render(buffer)
    /\ UNCHANGED <<width, height, char_width, char_height, buffer, default_color>>

NextCanvas ==
    \/ \E size \in CanvasSizes, color \in DrawColors : CanvasNew(size, color)
    \/ \E color \in CanvasColors : CanvasClear(color)
    \/ \E color \in DrawColors, points \in PlotInputs : CanvasPlot(color, points)
    \/ \E a \in LineInputs, color \in DrawColors : CanvasLine(a, color)
    \/ CanvasRender

\* The generator, one call of next() at a time.
InitLine ==
    /\ line_args = <<0, 0, 0, 0>>
    /\ line_pc = "idle"
    /\ line_gen = LineFirst(<<0, 0, 0, 0>>)
    /\ line_yielded = <<>>

\* The endpoints the generator is made with: p1 anywhere in the square, p0
\* near its middle, so that p1 lies in every octant around p0, at every
\* slope the square holds.
Coords == -MaxCoord..MaxCoord
StartCoords == -1..1

\* _bresenham_line(x0, y0, x1, y1): the generator object is made, none of its
\* body has run.
LineStart(a) ==
    /\ line_pc = "idle"
    /\ line_args' = a
    /\ line_pc' = "start"
    /\ line_gen' = LineFirst(a)
    /\ line_yielded' = <<>>

\* next(): the body runs to its next yield, or leaves the loop.
LineNext ==
    \/ /\ line_pc = "start"
       /\ line_pc' = "yielded"
       /\ line_yielded' = Append(line_yielded, <<line_gen.x, line_gen.y>>)
       /\ UNCHANGED <<line_args, line_gen>>
    \/ /\ line_pc = "yielded"
       /\ LineAtEnd(line_gen, line_args)
       /\ line_pc' = "done"
       /\ UNCHANGED <<line_args, line_gen, line_yielded>>
    \/ /\ line_pc = "yielded"
       /\ ~LineAtEnd(line_gen, line_args)
       /\ LET g == LineAdvance(line_gen, line_args)
          IN /\ line_gen' = g
             /\ line_yielded' = Append(line_yielded, <<g.x, g.y>>)
       /\ UNCHANGED <<line_args, line_pc>>

NextLine ==
    \/ \E x0 \in StartCoords, y0 \in StartCoords, x1 \in Coords, y1 \in Coords :
           LineStart(<<x0, y0, x1, y1>>)
    \/ LineNext

-----------------------------------------------------------------------------
Init == InitAudio /\ InitThread /\ InitSim /\ InitProbe /\ InitCanvas /\ InitLine

\* The SoundManager alone: the main context calling play_explosion and the
\* audio context running the callback.
Spec ==
    Init /\ [][NextManager /\ UNCHANGED not_audio_vars]_vars

\* The frame loop with its fireworks, with the sound system up.
InitUp == Init /\ enabled
SpecSim == InitUp /\ [][NextSim /\ UNCHANGED side_vars]_vars

\* The frame loop under slow frames, and under short ones.
InitGate ==
    /\ InitAudio /\ enabled /\ InitThread /\ InitProbe /\ InitCanvas /\ InitLine
    /\ InitLoop
    /\ stdin \in KeySeqs(MaxKeys)
    /\ tracked = 0
SpecGate == InitGate /\ [][NextGate]_vars
SpecSlow == InitUp /\ [][NextSlow /\ UNCHANGED side_vars]_vars
SpecFast == InitUp /\ [][NextFast /\ UNCHANGED side_vars]_vars

\* The frame loop from the construction of the SoundManager to the end of
\* the finally block.  The thread keeps running once started and the main
\* context keeps running through stop() and the finally block.
ThreadRuns ==
    (ThreadLoopExit \/ ThreadStopStream \/ ThreadCloseStream)
        /\ UNCHANGED <<sim_vars, life_vars, side_vars, not_loop_vars>>
FinallyRuns ==
    (StopCall \/ StopJoinReturn \/ TeardownRestore \/ TeardownLeave)
        /\ UNCHANGED side_vars
SpecLoop ==
    Init /\ [][NextLoop /\ UNCHANGED side_vars]_vars
         /\ WF_vars(ThreadRuns) /\ WF_vars(FinallyRuns)

\* The SoundManager with one of its voices followed (any one: the choice is
\* free at each append) from line 523, where it is appended, to line 451,
\* where it is popped.
Follow ==
    IF Len(active_sounds') > Len(active_sounds)
    THEN tracked' \in (IF tracked = 0 THEN {0, Len(active_sounds')} ELSE {tracked})
    ELSE IF audio_pc = "mix" /\ audio_pc' = "idle" /\ tracked # 0
    THEN LET popped == {i \in DOMAIN active_sounds :
                           Finished(active_sounds[i].position,
                                    ToOutput(DataLen(explosion_sound_data)
                                                 - active_sounds[i].position, frames),
                                    DataLen(explosion_sound_data))}
         IN tracked' = IF tracked \in popped THEN 0
                       ELSE tracked - Cardinality({i \in popped : i < tracked})
    ELSE tracked' = tracked

Followed(A) ==
    A /\ UNCHANGED <<thread_vars, sim_vars, life_vars, stdin, probe_vars, canvas_vars,
                     line_vars>>
      /\ Follow

\* One explosion position is enough here: what a voice sounds like plays
\* no part in when it ends.
VoiceInput == <<6000, 8>>

NextVoice ==
    \/ /\ \/ PlayCall(VoiceInput[1], VoiceInput[2])
          \/ PlayAcquireCheck
          \/ PlayCheck
          \/ PlayPan
          \/ PlayAcquireAppend
          \/ PlayAppend
          \/ \E n \in 1 .. VoiceFrames : CallbackStart(n)
          \/ CallbackAcquire
          \/ CallbackMix
       /\ UNCHANGED thread_vars
    \/ \E ok \in BOOLEAN : ThreadOpen(ok)

\* Lines 430-451 seen from outside: the pass has the lock and ends.  A step
\* from "mix" to "idle" is a CallbackMix step, and CallbackMix is enabled
\* exactly when audio_pc = "mix" (sound_lock is then the callback's).
MixPassEnds == audio_pc = "mix" /\ audio_pc' = "idle"

\* The backend keeps invoking the callback while the stream is started, the
\* callback gets the lock it waits for, and neither context stops inside
\* its locked section.  The third conjunct is WF_vars(CallbackMix) written
\* out with the enabling condition of CallbackMix.
SpecVoice ==
    /\ Init
    /\ [][(NextVoice /\ UNCHANGED <<sim_vars, life_vars, stdin, probe_vars,
                                     canvas_vars, line_vars>>) /\ Follow]_vars
    /\ WF_vars(Followed(\E n \in 1 .. VoiceFrames : CallbackStart(n)))
    /\ SF_vars(Followed(CallbackAcquire))
    /\ ([]<>(audio_pc # "mix") \/ []<><<MixPassEnds>>_vars)
    /\ WF_vars(Followed(PlayCheck \/ PlayAppend))

\* The two contexts with a call that raises among the calls: a screen width
\* of 0 makes line 504 raise ZeroDivisionError, after the first locked
\* section and before the second.
LockInputs == {<<6000, 8>>, <<6000, 0>>}

NextLock ==
    \/ /\ \/ \E in \in LockInputs : PlayCall(in[1], in[2])
          \/ PlayAcquireCheck
          \/ PlayCheck
          \/ PlayPan
          \/ PlayAcquireAppend
          \/ PlayAppend
          \/ \E n \in 1 .. MaxFrames : CallbackStart(n)
          \/ CallbackAcquire
          \/ CallbackMix
       /\ UNCHANGED thread_vars
    \/ \E ok \in BOOLEAN : ThreadOpen(ok)

SpecLock == Init /\ [][NextLock /\ UNCHANGED not_audio_vars]_vars

\* The frame loop kept going: no quit key, no interrupt, iterations of 0.4 s
\* and 1 s in any order, and fireworks launched by the space key, one an
\* iteration, in the first iterations of the run.
NextLife ==
    \E dt \in DtChoices, key \in SpawnKeys :
        \E d1 \in ManualDraws(key) :
            /\ key = " " => elapsed <= SpawnBy
            /\ Tick(dt, key, FALSE, d1, NoDraw, spawn_interval, "none")

\* Lines 992-1001: the loop is running and an iteration still fits in the
\* time the run is followed for.  This is the enabling condition of NextLife
\* (an iteration without a key is always possible).
TickPossible == loop_pc = "running" /\ \E dt \in DtChoices : elapsed + dt <= MaxTime

\* Iterations keep occurring: WF_vars(NextLife) written out with the
\* enabling condition of NextLife, every step of which advances `elapsed`.
SpecLife ==
    /\ InitUp
    /\ [][NextLife /\ UNCHANGED side_vars]_vars
    /\ ([]<>~TickPossible \/ []<><<elapsed' # elapsed>>_vars)

\* play_explosion tried over positions, widths and caches.
InitPan == InitPanAudio /\ InitThread /\ InitSim /\ InitProbe /\ InitCanvas /\ InitLine
SpecPan ==
    InitPan /\ [][NextPan /\ UNCHANGED <<thread_vars, not_audio_vars>>]_vars

\* One canvas and the calls made on it.
SpecCanvas ==
    InitUp /\ [][NextCanvas /\ UNCHANGED <<audio_vars, thread_vars, sim_vars, life_vars,
                                         side_vars, probe_vars, line_vars>>]_vars

\* One generator of line points, resumed until it is exhausted.
NextLineOnly ==
    NextLine /\ UNCHANGED <<audio_vars, thread_vars, sim_vars, life_vars, side_vars,
                            probe_vars, canvas_vars>>
SpecLine == InitUp /\ [][NextLineOnly]_vars /\ WF_line_vars(LineNext)

\* One Particle, updated and tested.
SpecParticle ==
    InitUp /\ [][NextProbe /\ UNCHANGED <<audio_vars, thread_vars, sim_vars, life_vars,
                                        side_vars, canvas_vars, line_vars>>]_vars

-----------------------------------------------------------------------------
(* Claims about the SoundManager *)

\* C1: under every interleaving of play_explosion (main context) with the
\* mixing callback (audio context), active_sounds never holds more than
\* max_concurrent_sounds entries.
C1_VoiceCeiling == Len(active_sounds) <= max_concurrent_sounds

\* The list is full while a play_explosion call is inside its ceiling check
\* and a callback is waiting for the lock.
C1_Witness ==
    /\ Len(active_sounds) = max_concurrent_sounds
    /\ main_pc = "check"
    /\ audio_pc = "lock"

\* C2: with audio enabled, a full cache and an empty list, n calls of
\* play_explosion in immediate succession (no mixing pass in between) leave
\* min(n, ceiling) voices, all at cursor 0; a call made at the ceiling leaves
\* the list as it was.
C2_State ==
    (enabled /\ stereo_cache = PanKeys /\ burst >= 0) =>
        /\ Len(active_sounds) = Min(burst, max_concurrent_sounds)
        /\ \A i \in DOMAIN active_sounds : active_sounds[i].position = 0

C2_BurstFillsToCeiling ==
    /\ []C2_State
    /\ [][(burst >= max_concurrent_sounds /\ burst' >= 0)
            => active_sounds' = active_sounds]_vars

\* The (ceiling + 1)-th call of the burst has returned.
C2_Witness ==
    /\ enabled
    /\ burst = max_concurrent_sounds + 1
    /\ main_pc = "idle"
    /\ Len(active_sounds) = max_concurrent_sounds

\* What a mixing pass over `sounds` with a buffer of n frames must put into
\* frame k, channel c, of a zeroed buffer.
RECURSIVE ExpectedSample(_, _, _, _, _)
ExpectedSample(sounds, mono, n, k, c) ==
    IF sounds = <<>> THEN 0
    ELSE LET v == Head(sounds)
             share == IF k <= Min(DataLen(mono) - v.position, n)
                      THEN StereoFrame(mono, v.data, v.position + k)[c]
                      ELSE 0
         IN share + ExpectedSample(Tail(sounds), mono, n, k, c)

\* The voices of `sounds` after a pass: each cursor advanced by
\* min(remaining, n), those that reached the variant length dropped.
ExpectedSurvivors(sounds, mono, n) ==
    LET advanced == [i \in DOMAIN sounds |->
                        [sounds[i] EXCEPT
                            !.position = @ + Min(DataLen(mono) - @, n)]]
    IN SelectSeq(advanced, LAMBDA v : v.position # DataLen(mono))

\* C3: one mixing pass adds, for every active voice, exactly
\* min(remaining, B) samples starting at its cursor to the output, advances
\* the cursor by that amount, and removes the voice iff its cursor then equals
\* the variant length.
C3_MixingPass ==
    [][(audio_pc = "mix" /\ audio_pc' = "idle") =>
         /\ Len(to_outputs') = Len(active_sounds)
         /\ \A i \in DOMAIN active_sounds :
                to_outputs'[i] =
                    Min(DataLen(explosion_sound_data) - active_sounds[i].position,
                        frames)
         /\ outdata' = [k \in 1 .. frames |->
                          <<ExpectedSample(active_sounds, explosion_sound_data,
                                           frames, k, 1),
                            ExpectedSample(active_sounds, explosion_sound_data,
                                           frames, k, 2)>>]
         /\ active_sounds' = ExpectedSurvivors(active_sounds,
                                               explosion_sound_data, frames)
      ]_vars

\* A pass has just ended in which one voice had fewer samples left than the
\* buffer holds and was removed, and another filled the buffer and stays.
C3_Witness ==
    /\ audio_pc = "idle"
    /\ sounds_to_remove # <<>>
    /\ Len(sounds_to_remove) < Len(to_outputs)
    /\ \E i \in DOMAIN to_outputs : to_outputs[i] < frames
    /\ \E i \in DOMAIN to_outputs : to_outputs[i] = frames

\* pan = clamp(x / screen_width * 2 - 1, -1, 1) in thousandths is
\* PanTimesWidth / play_w, and the distance from pan to a bucket is
\* PanDistance / play_w.
PanTimesWidth ==
    LET raw == 2 * play_x - 1000 * play_w
    IN IF raw < 0 - 1000 * play_w THEN 0 - 1000 * play_w
       ELSE IF raw > 1000 * play_w THEN 1000 * play_w ELSE raw
PanDistance(bucket) ==
    LET d == PanTimesWidth - bucket * play_w IN IF d < 0 THEN 0 - d ELSE d
PanBuckets == {125 * j : j \in -8 .. 8}

\* The call in progress has chosen its variant from the full cache.
PanChosen == stereo_cache = PanBuckets /\ main_pc = "lock2"
PanNearest ==
    /\ stereo_data \in PanBuckets
    /\ \A b \in PanBuckets : PanDistance(stereo_data) <= PanDistance(b)

\* C11 as stated: the bucket chosen is nearest to pan, and of two buckets
\* equally near the lower is chosen.
C11_TiesToLower ==
    PanChosen =>
        /\ PanNearest
        /\ \A b \in PanBuckets :
              PanDistance(b) = PanDistance(stereo_data) => stereo_data <= b

\* C11 amended: the bucket chosen is nearest to pan, and of two buckets
\* equally near the one that is an even multiple of 0.125 is chosen (the
\* lower one when it is even, the upper one otherwise).
C11_TiesToEven ==
    PanChosen =>
        /\ PanNearest
        /\ \A b \in PanBuckets :
              (b # stereo_data /\ PanDistance(b) = PanDistance(stereo_data)) =>
                  (stereo_data \div 125) % 2 = 0

\* x = 19 on a screen 32 wide: pan 0.1875, midway between 0.125 and 0.25;
\* the variant chosen is 0.25.
C11_Witness ==
    /\ PanChosen
    /\ play_x = 19000
    /\ play_w = 32
    /\ stereo_data = 250

\* C13: a call whose quantized bucket is in the cache goes on with that
\* variant; when the bucket is missing it goes on with the center variant;
\* when the center variant is missing too it returns with the voice list
\* unchanged; the voice appended holds the variant chosen; and no call, a
\* call with screen width 0 included, lets an exception out to its caller.
C13_FallbackToCenter ==
    /\ [](play_raised = "none")
    /\ [][(main_pc = "pan" /\ main_pc' # "pan") =>
            IF play_w = 0
            THEN main_pc' = "idle" /\ active_sounds' = active_sounds
            ELSE LET q == QuantizedPan(play_x, play_w)
                 IN /\ q \in stereo_cache => main_pc' = "lock2" /\ stereo_data' = q
                    /\ (q \notin stereo_cache /\ 0 \in stereo_cache) =>
                          main_pc' = "lock2" /\ stereo_data' = 0
                    /\ (q \notin stereo_cache /\ 0 \notin stereo_cache) =>
                          main_pc' = "idle" /\ active_sounds' = active_sounds
         ]_vars
    /\ [][main_pc = "append" /\ main_pc' = "idle" =>
            active_sounds' = Append(active_sounds, [data |-> stereo_data, position |-> 0])
         ]_vars

\* The cache holds the center variant alone; a call at x = 19 of 32 (bucket
\* 0.25) has put the center variant on the list.
C13_Witness ==
    /\ stereo_cache = {0}
    /\ main_pc = "append"
    /\ play_x = 19000
    /\ play_w = 32
    /\ stereo_data = 0

\* C29: the cursor of every voice on the list lies within 0 .. variant
\* length; a voice is appended with cursor 0; when a pass ends, the list is
\* the voices of before, cursors advanced, without those whose cursor
\* reached the variant length, the others in the order they had, so every
\* voice left has its cursor below the variant length.
C29_CursorsAndPruning ==
    /\ [](\A i \in DOMAIN active_sounds :
            /\ 0 <= active_sounds[i].position
            /\ active_sounds[i].position <= DataLen(explosion_sound_data))
    /\ [][Len(active_sounds') > Len(active_sounds) =>
            active_sounds'[Len(active_sounds')].position = 0]_vars
    /\ [][(audio_pc = "mix" /\ audio_pc' = "idle") =>
            LET len == DataLen(explosion_sound_data)
                stays == {i \in DOMAIN active_sounds :
                             active_sounds[i].position + frames < len}
                nth(k) == CHOOSE i \in stays : Cardinality({j \in stays : j <= i}) = k
            IN /\ Len(active_sounds') = Cardinality(stays)
               /\ \A k \in DOMAIN active_sounds' :
                     /\ active_sounds'[k].data = active_sounds[nth(k)].data
                     /\ active_sounds'[k].position = active_sounds[nth(k)].position + frames
                     /\ active_sounds'[k].position < len
         ]_vars

\* A pass has just ended in which two voices finished together and a third,
\* appended after them, stays on the list.
C29_Witness ==
    /\ audio_pc = "idle"
    /\ Len(sounds_to_remove) = 2
    /\ Len(active_sounds) = 1
    /\ active_sounds[1].position = frames

\* C30: with the stream started, a voice on the list is popped in the end,
\* whichever voice it is, and a list at the ceiling gets below it again.
C30_VoicesEnd ==
    /\ (tracked # 0 /\ stream = "started") ~> (tracked = 0)
    /\ (CeilingReached(active_sounds) /\ stream = "started")
          ~> ~CeilingReached(active_sounds)
    /\ [](tracked \in 0 .. Len(active_sounds))
    /\ [](audio_pc = "mix" => sound_lock = "audio")

\* The list is at the ceiling with the stream started, and the voice
\* followed is the last one appended.
C30_Witness ==
    /\ stream = "started"
    /\ Len(active_sounds) = max_concurrent_sounds
    /\ tracked = max_concurrent_sounds

\* C31: sound_lock never causes a deadlock.  A context holds the lock only
\* inside its with-block, so every way out of play_explosion (the return at
\* the ceiling, the exception, the failed lookup, the append) and out of the
\* callback has released it; the lock is taken only when it is free, never
\* by a context that holds it; with both contexts idle the lock is free; and
\* whenever a context waits for the lock, the lock is free or its holder is
\* at a step that releases it.
C31_NoDeadlock ==
    /\ [](main_pc \in {"idle", "lock1", "pan", "lock2"} => sound_lock # "main")
    /\ [](audio_pc \in {"idle", "lock"} => sound_lock # "audio")
    /\ [][main_pc # "idle" /\ main_pc' = "idle" => sound_lock' # "main"]_vars
    /\ [][audio_pc # "idle" /\ audio_pc' = "idle" => sound_lock' # "audio"]_vars
    /\ [][sound_lock' \notin {sound_lock, "free"} => sound_lock = "free"]_vars
    /\ [](main_pc = "idle" /\ audio_pc = "idle" => sound_lock = "free")
    /\ []((main_pc \in {"lock1", "lock2"} \/ audio_pc = "lock") =>
            \/ sound_lock = "free"
            \/ sound_lock = "main" /\ main_pc \in {"check", "append"}
            \/ sound_lock = "audio" /\ audio_pc = "mix")

\* The call that is about to raise has left its first locked section, and
\* the callback holds the lock over a list with a voice on it.
C31_Witness ==
    /\ main_pc = "pan"
    /\ play_w = 0
    /\ sound_lock = "audio"
    /\ audio_pc = "mix"
    /\ active_sounds # <<>>

\* The main context is inside play_explosion, waiting for sound_lock.
MainWaits == main_pc \in {"lock1", "lock2"} /\ sound_lock # "free"

\* C18 as stated: in no interleaving is the main context blocked in
\* play_explosion while the mixing callback is in progress.
C18_NeverWaits == ~(main_pc \in {"lock1", "lock2"} /\ sound_lock = "audio")

\* C18, amended: the main context waits in play_explosion only for
\* sound_lock, and only while the mixing callback is inside its pass over
\* the list; the step that ends the pass frees the lock; and the list grows
\* only by the append of the call in progress, one voice at a time, so a
\* trigger that was dropped is not played later.
C18_WaitsOnlyForThePass ==
    /\ [](MainWaits => (sound_lock = "audio" /\ audio_pc = "mix"))
    /\ [][(audio_pc = "mix" /\ audio_pc' # "mix") => sound_lock' = "free"]_vars
    /\ [][Len(active_sounds') > Len(active_sounds) =>
            /\ main_pc = "append" /\ main_pc' = "idle"
            /\ Len(active_sounds') = Len(active_sounds) + 1]_vars
    /\ [][(main_pc = "check" /\ main_pc' = "idle") =>
            active_sounds' = active_sounds]_vars

\* The call has its variant and waits to append while the callback mixes.
C18_Witness ==
    /\ main_pc = "lock2"
    /\ sound_lock = "audio"
    /\ audio_pc = "mix"

\* C19: the ceiling check and the append run with the lock held by the main
\* context, the pass of the callback with the lock held by the callback, so
\* the two are never inside a list operation together; no step changes the
\* list without the lock held before it and free after it; and the main
\* context does not hold the lock outside the check and the append, in
\* particular not while it computes the pan and looks up the variant.
C19_ListUnderLock ==
    /\ [](main_pc \in {"check", "append"} <=> sound_lock = "main")
    /\ [](audio_pc = "mix" <=> sound_lock = "audio")
    /\ [](~(main_pc \in {"check", "append"} /\ audio_pc = "mix"))
    /\ [][active_sounds' # active_sounds =>
            (sound_lock # "free" /\ sound_lock' = "free")]_vars

\* The main context computes the pan without the lock while the callback is
\* inside its pass over a list that holds a voice.
C19_Witness ==
    /\ main_pc = "pan"
    /\ audio_pc = "mix"
    /\ sound_lock = "audio"
    /\ active_sounds # <<>>

-----------------------------------------------------------------------------
(* Claims about Firework and Particle *)

\* The firework of the list fws with the given id, as a set (empty if gone).
WithId(fws, id) == {fws[i] : i \in {j \in DOMAIN fws : fws[j].id = id}}

\* C4: a firework goes from LAUNCHING to EXPLODED exactly once: explode() runs
\* at most once (it has run exactly when exploded is true), and no update
\* resets exploded to false.
C4_PhaseState ==
    \A i \in DOMAIN fireworks :
        /\ fireworks[i].explode_calls <= 1
        /\ fireworks[i].exploded <=> fireworks[i].explode_calls = 1

C4_ExplodesOnce ==
    /\ []C4_PhaseState
    /\ [][\A i \in DOMAIN fireworks :
            \A g \in WithId(fireworks', fireworks[i].id) :
                fireworks[i].exploded => g.exploded]_vars

\* An exploded firework that has been updated again since it exploded.
C4_Witness ==
    \E i \in DOMAIN fireworks :
        /\ fireworks[i].exploded
        /\ fireworks[i].explode_calls = 1
        /\ \E p \in DOMAIN fireworks[i].particles : p.age > 0

\* C5: right after the explosion step the particle count is the count drawn
\* (within 450 .. 750), and no later update tick raises it.
C5_ParticleCount ==
    [][\A j \in DOMAIN fireworks' :
         LET g == fireworks'[j]
             before == WithId(fireworks, g.id)
         IN /\ (g.exploded /\ \A f \in before : ~f.exploded) =>
                  /\ BagCardinality(g.particles) = g.num_particles
                  /\ g.num_particles \in 450 .. 750
            /\ \A f \in before :
                  f.exploded =>
                      BagCardinality(g.particles) <= BagCardinality(f.particles)
      ]_vars

\* An exploded firework some of whose particles have died and some not.
C5_Witness ==
    \E i \in DOMAIN fireworks :
        /\ fireworks[i].exploded
        /\ BagCardinality(fireworks[i].particles) > 0
        /\ BagCardinality(fireworks[i].particles) < fireworks[i].num_particles

\* C10: is_alive() is true for 0 <= age < lifetime and false for
\* age >= lifetime; at age = lifetime the particle is dead.
C10_HalfOpenLife ==
    /\ probe.age >= 0
    /\ probe.age < probe.lifetime => probe_alive
    /\ probe.age >= probe.lifetime => ~probe_alive

\* The particle's age has reached exactly its lifetime.
C10_Witness ==
    /\ probe.age = probe.lifetime
    /\ ~probe_alive

-----------------------------------------------------------------------------
(* Claims about the BrailleCanvas *)

\* The bits set in a mask.
BitsOf(val) == {b \in 0..7 : HasBit(val, b)}

\* The documented dot numbering, listed down the left column, then down the
\* right one:   0 3
\*              1 4
\*              2 5
\*              6 7
DotNumbering == <<0, 1, 2, 6, 3, 4, 5, 7>>
DotNumber(p) == DotNumbering[(p[1] % 2) * 4 + (p[2] % 4) + 1]

\* The in-bounds points of a call that fall in the cell at row r, column c.
PointsInCell(points, r, c) ==
    {p \in Range(points) :
        /\ InBounds(width, height, p)
        /\ p[1] \div 2 = c - 1
        /\ p[2] \div 4 = r - 1}

\* The step is a call on the canvas, of the operation named.
CanvasStep(ops) == canvas_calls' = canvas_calls + 1 /\ canvas_op'.op \in ops

Cells == (1..char_height) \X (1..char_width)

\* C6: plotting an in-bounds point (x, y), once or several times and in
\* any color, sets in cell (x >> 1, y >> 2) exactly the bit the dot table
\* gives for (x mod 2, y mod 4), and nothing else in any mask; a plot of the
\* points just plotted leaves every mask as it was.
C6_PlotSetsTableBit ==
    [][CanvasStep({"plot"}) =>
         /\ \A rc \in Cells :
               BitsOf(buffer'[rc[1]][rc[2]].mask) =
                   BitsOf(buffer[rc[1]][rc[2]].mask) \cup
                   {DotNumber(p) : p \in PointsInCell(canvas_op'.points, rc[1], rc[2])}
         /\ (canvas_op.op = "plot" /\ canvas_op.points = canvas_op'.points) =>
               \A rc \in Cells :
                   buffer'[rc[1]][rc[2]].mask = buffer[rc[1]][rc[2]].mask
      ]_vars

\* Pixel (1, 2) plotted twice in one call on a canvas with nothing else in
\* its first cell: the cell holds bit 5 alone.
C6_Witness ==
    /\ canvas_op.op = "plot"
    /\ canvas_op.points = << <<1, 2>>, <<1, 2>> >>
    /\ width = 4
    /\ buffer[1][1].mask = 32
    /\ buffer[1][1].color = canvas_op.color

\* C7: a plot or line call leaves in every mask all the bits it had, and
\* the mask within 0 .. 255; a clear call leaves every mask 0 (and render
\* leaves the buffer alone).
C7_MasksOnlyGainBits ==
    [][/\ CanvasStep({"plot", "line"}) =>
            \A rc \in Cells :
                /\ BitsOf(buffer[rc[1]][rc[2]].mask)
                       \subseteq BitsOf(buffer'[rc[1]][rc[2]].mask)
                /\ buffer'[rc[1]][rc[2]].mask \in 0..255
       /\ CanvasStep({"clear"}) =>
            /\ DOMAIN buffer' = 1..char_height
            /\ \A rc \in Cells :
                   /\ DOMAIN buffer'[rc[1]] = 1..char_width
                   /\ buffer'[rc[1]][rc[2]].mask = 0
       /\ CanvasStep({"render"}) => buffer' = buffer
      ]_vars

\* The line from (0, 0) to (3, 7) has been drawn over pixel (0, 2), which is
\* not on it: the first cell holds the line's bits 0, 1, 5, 7 and bit 2.
C7_Witness ==
    /\ canvas_op.op = "line"
    /\ canvas_op.points = << <<0, 0>>, <<3, 7>> >>
    /\ width = 4
    /\ height = 8
    /\ buffer[1][1].mask = 167

\* C8: the generator yields at most max(dx, dy) + 1 points, so it is
\* exhausted after finitely many calls of next(), and a generator whose
\* consumer keeps calling next() is exhausted; the first point yielded is
\* p0 and the last is p1; with p0 = p1 exactly one point is yielded; from
\* (0, 0) to (4, 0) the points are (0,0), (1,0), (2,0), (3,0), (4,0).
C8_State ==
    LET p0 == <<line_args[1], line_args[2]>>
        p1 == <<line_args[3], line_args[4]>>
        dx == Abs(line_args[3] - line_args[1])
        dy == Abs(line_args[4] - line_args[2])
    IN /\ Len(line_yielded) <= (IF dx > dy THEN dx ELSE dy) + 1
       /\ line_pc \in {"yielded", "done"} => line_yielded[1] = p0
       /\ line_pc = "done" =>
            /\ line_yielded[Len(line_yielded)] = p1
            /\ p0 = p1 => Len(line_yielded) = 1
            /\ line_args = <<0, 0, 4, 0>> =>
                  line_yielded = << <<0, 0>>, <<1, 0>>, <<2, 0>>, <<3, 0>>, <<4, 0>> >>

C8_LineReachesEnd ==
    /\ []C8_State
    /\ (line_pc = "start") ~> (line_pc = "done")

\* The generator from (0, 0) to (4, 0), exhausted.
C8_Witness ==
    /\ line_pc = "done"
    /\ line_args = <<0, 0, 4, 0>>
    /\ Len(line_yielded) = 5

\* The rows of a rendered text, and the color switches in a row.
RECURSIVE SplitRows(_, _, _)
SplitRows(tokens, i, row) ==
    IF i > Len(tokens) THEN <<row>>
    ELSE IF tokens[i] = <<"crdown">> THEN <<row>> \o SplitRows(tokens, i + 1, <<>>)
    ELSE SplitRows(tokens, i + 1, Append(row, tokens[i]))

ColorSwitches(row) == {i \in DOMAIN row : row[i][1] = "sgr" /\ row[i] # RESET}

\* C9: render() called on a canvas at least one cell wide, right after
\* clear(C) or the constructor, returns one row of text per row of cells,
\* each with exactly one color switch.
C9_OneSwitchPerRow ==
    [][(CanvasStep({"render"}) /\ canvas_op.op \in {"clear", "new"} /\ char_width >= 1) =>
         LET rows == SplitRows(rendered', 1, <<>>)
         IN /\ Len(rows) = char_height
            /\ \A r \in DOMAIN rows : Cardinality(ColorSwitches(rows[r])) = 1
      ]_vars

\* The 4 x 8 canvas (two rows of two cells) rendered right after
\* clear(rgb_color(255, 0, 0)).
C9_Witness ==
    /\ canvas_op.op = "render"
    /\ canvas_calls = 2
    /\ default_color = rgb_color(255, 0, 0)
    /\ rendered = << <<"sgr", 38, 2, 255, 0, 0>>, <<"chr", 10240>>, <<"chr", 10240>>,
                     <<"sgr", 0>>, <<"crdown">>,
                     <<"sgr", 38, 2, 255, 0, 0>>, <<"chr", 10240>>, <<"chr", 10240>>,
                     <<"sgr", 0>> >>

\* A point inside the canvas, as the claim words it.
InsideCanvas(p) == ~(p[1] < 0 \/ p[1] >= width \/ p[2] < 0 \/ p[2] >= height)

\* C14: a plot call changes the buffer as a call with its out-of-bounds
\* points left out would: a cell holding no in-bounds point of the call keeps
\* its mask and its color, and every in-bounds point falls on a cell the
\* buffer has (no index out of range is used).
C14_OutOfBoundsDropped ==
    [][CanvasStep({"plot"}) =>
         LET points == canvas_op'.points
             inside == SelectSeq(points, InsideCanvas)
         IN /\ buffer' = Plot(buffer, width, height, canvas_op'.color, inside)
            /\ \A rc \in Cells :
                  (\A i \in DOMAIN inside :
                       <<inside[i][2] \div 4 + 1, inside[i][1] \div 2 + 1>> # rc) =>
                      buffer'[rc[1]][rc[2]] = buffer[rc[1]][rc[2]]
            /\ \A i \in DOMAIN inside :
                  <<inside[i][2] \div 4 + 1, inside[i][1] \div 2 + 1>> \in Cells
      ]_vars

\* The first call on the 4 x 8 canvas plots (4, 8), (2, 1) and (0, -1): only
\* (2, 1), bit 1 of the cell in row 1, column 2, is in the buffer.
C14_Witness ==
    /\ canvas_calls = 1
    /\ canvas_op.op = "plot"
    /\ canvas_op.points = << <<4, 8>>, <<2, 1>>, <<0, -1>> >>
    /\ buffer = [Cleared(2, 2, <<"int", 7>>) EXCEPT
                    ![1][2] = [mask |-> 2, color |-> canvas_op.color]]

\* C24: after plot(color, points) every cell with an in-bounds point of the
\* call has the color of the call, whatever it had, and its mask keeps the
\* bits it had; every other cell keeps its mask and its color.
C24_LastColorWins ==
    [][CanvasStep({"plot"}) =>
         \A rc \in Cells :
             IF PointsInCell(canvas_op'.points, rc[1], rc[2]) # {}
             THEN /\ buffer'[rc[1]][rc[2]].color = canvas_op'.color
                  /\ BitsOf(buffer[rc[1]][rc[2]].mask)
                        \subseteq BitsOf(buffer'[rc[1]][rc[2]].mask)
             ELSE buffer'[rc[1]][rc[2]] = buffer[rc[1]][rc[2]]
      ]_vars

\* Pixels (1, 2) and (2, 1) were plotted in red, then pixel (0, 0) in white:
\* the first cell holds both its dots in white, the second is still red.
C24_Witness ==
    /\ canvas_op.op = "plot"
    /\ canvas_op.points = << <<0, 0>> >>
    /\ canvas_op.color = <<"int", 7>>
    /\ width = 4
    /\ height = 8
    /\ buffer[1][1] = [mask |-> 33, color |-> <<"int", 7>>]
    /\ buffer[1][2] = [mask |-> 2, color |-> rgb_color(255, 0, 0)]

\* The places of the glyphs in a row of text, and the place of the k-th.
GlyphPlaces(row) == {i \in DOMAIN row : row[i][1] = "chr"}
GlyphPlace(row, k) ==
    CHOOSE i \in GlyphPlaces(row) : Cardinality({j \in GlyphPlaces(row) : j <= i}) = k

\* Cell k of a row of cells starts a run of equal colors.
StartsRun(cells, k) == k = 1 \/ cells[k].color # cells[k - 1].color

\* The escape sequence that selects a color: ESC [ 3i m for the int i, the
\* str itself otherwise.
SwitchTo(color) ==
    IF color[1] = "int" THEN <<"sgr", 30 + color[2]>>
    ELSE <<"sgr", color[2], color[3], color[4], color[5], color[6]>>

\* C25: render() returns, for each row of cells, one glyph per cell, of code
\* point 0x2800 + mask, in cell order; a color switch stands immediately
\* before the glyph of each cell that starts a run of equal colors, selects
\* the color of that cell, and there is no other switch in the row; every
\* switch but the first of the row stands immediately after a reset.
C25_SwitchPerRun ==
    [][CanvasStep({"render"}) =>
         LET rows == SplitRows(rendered', 1, <<>>)
         IN \A r \in 1 .. char_height :
              LET row == rows[r]
                  cells == buffer[r]
                  switches == ColorSwitches(row)
              IN /\ Cardinality(GlyphPlaces(row)) = char_width
                 /\ \A k \in 1 .. char_width :
                       /\ row[GlyphPlace(row, k)] = <<"chr", 10240 + cells[k].mask>>
                       /\ StartsRun(cells, k) <=> (GlyphPlace(row, k) - 1) \in switches
                       /\ StartsRun(cells, k) =>
                             row[GlyphPlace(row, k) - 1] = SwitchTo(cells[k].color)
                 /\ Cardinality(switches) =
                       Cardinality({k \in 1 .. char_width : StartsRun(cells, k)})
                 /\ \A i \in switches :
                       /\ (i + 1) \in GlyphPlaces(row)
                       /\ (\E j \in switches : j < i) => row[i - 1] = <<"sgr", 0>>
      ]_vars

\* The 5 x 2 canvas (one row of three cells) rendered after pixel (2, 1) was
\* plotted in red on white: three runs, three switches, two of them after a
\* reset.
C25_Witness ==
    /\ canvas_op.op = "render"
    /\ width = 5
    /\ height = 2
    /\ rendered = << <<"sgr", 37>>, <<"chr", 10240>>, <<"sgr", 0>>,
                     <<"sgr", 38, 2, 255, 0, 0>>, <<"chr", 10242>>, <<"sgr", 0>>,
                     <<"sgr", 37>>, <<"chr", 10240>>, <<"sgr", 0>> >>

-----------------------------------------------------------------------------
(* Claims about the frame loop, the sound thread and the teardown *)

C15_OnlyQuitOrInterrupt ==
    [][(loop_pc = "running" /\ loop_pc' # "running") =>
          loop_pc' \in {"stopped", "interrupted"}]_vars

\* C16: the finally block runs stop(), the restore of the terminal and the
\* leaving of the alternate screen, each once and in this order, and only
\* after the loop was left; the sound is told to stop before anything else;
\* and however the loop was left the three are done in the end.
C16_Order == <<"stop", "restore", "leave">>
C16_SameTeardown ==
    /\ [](teardown = SubSeq(C16_Order, 1, Len(teardown)))
    /\ [](teardown # <<>> => (~running /\ loop_pc # "running"))
    /\ [][teardown' # teardown =>
            /\ Len(teardown') = Len(teardown) + 1
            /\ loop_pc' = loop_pc]_vars
    /\ (loop_pc = "stopped") ~> (teardown = C16_Order)
    /\ (loop_pc = "interrupted") ~> (teardown = C16_Order)

\* The loop was left by a keyboard interrupt and the finally block is done.
C16_Witness ==
    /\ loop_pc = "interrupted"
    /\ teardown = <<"stop", "restore", "leave">>
    /\ stop_pc = "returned"

\* The places of a stage in the log of an iteration.
StagePlaces(stage) == {i \in DOMAIN frame_log' : frame_log'[i] = stage}

\* C17: an iteration that completes prints once, the cursor-home sequence
\* followed by the rendered frame, after it cleared the canvas, plotted the
\* fireworks and plotted the overlay; an iteration that ends on the quit key
\* prints nothing.
C17_OneWritePerTick ==
    [][elapsed' # elapsed =>
         /\ loop_pc' = "running" =>
               /\ written' = << <<"home", "frame">> >>
               /\ Cardinality(StagePlaces("write")) = 1
               /\ \A stage \in {"clear", "fireworks", "overlay", "render"} :
                     \E i \in StagePlaces(stage) :
                         \A j \in StagePlaces("write") : i < j
         /\ loop_pc' = "stopped" =>
               /\ written' = <<>>
               /\ StagePlaces("write") = {}
      ]_vars

\* The second iteration has completed with a firework in flight.
C17_Witness ==
    /\ loop_pc = "running"
    /\ elapsed = 20
    /\ fireworks # <<>>
    /\ written = << <<"home", "frame">> >>
    /\ frame_log[Len(frame_log)] = "write"

\* C20: once the flag is cleared with the stream started, the keep-alive
\* loop ends and the stream is stopped, then closed, and the thread ends;
\* the stream is stopped only with the flag cleared; stop() waiting in join
\* returns, whatever the thread does; and with no thread started stop()
\* returns in the step that calls it.
C20_CooperativeStop ==
    /\ (~running /\ stream = "started") ~> (stream = "closed" /\ thread_pc = "exited")
    /\ [][stream' # stream =>
            \/ stream = "none" /\ stream' = "started"
            \/ stream = "started" /\ stream' = "stopped" /\ ~running
            \/ stream = "stopped" /\ stream' = "closed"]_vars
    /\ (stop_pc = "join") ~> (stop_pc = "returned")
    /\ [][(stop_pc = "idle" /\ stop_pc' # "idle") =>
            /\ ~running'
            /\ thread_pc = "none" => stop_pc' = "returned"
            /\ thread_pc # "none" => stop_pc' = "join"]_vars
    /\ [][(stop_pc = "join" /\ stop_pc' # "join") => stop_pc' = "returned"]_vars

\* stop() has returned on the timeout of join: the thread is still in its
\* keep-alive loop, the stream still started.
C20_Witness ==
    /\ stop_pc = "returned"
    /\ ~running
    /\ thread_pc = "alive"
    /\ stream = "started"

-----------------------------------------------------------------------------
(* Claims about the scheduler and the life of a firework *)

\* The iteration ran to its end (it was not ended by the quit key).
TickCompleted == elapsed' # elapsed /\ loop_pc' = "running"

\* C21 as stated: the filter removes exactly the fireworks that are finished
\* or more than 50 units behind the camera (camera_z - z > 50), in list
\* order, whatever their phase and their particles.
C21_CulledBeyondMargin ==
    [][TickCompleted =>
         fireworks' = SelectSeq(updated',
                                LAMBDA f : ~(is_finished(f) \/ camera_z' - f.z > 50000))
      ]_vars

\* C21, amended: the filter removes exactly the fireworks that are finished
\* or at least 50 units behind the camera (camera_z - z >= 50), in list
\* order, whatever their phase and their particles.
C21_CulledFromMargin ==
    [][TickCompleted =>
         fireworks' = SelectSeq(updated',
                                LAMBDA f : ~(is_finished(f) \/ camera_z' - f.z >= 50000))
      ]_vars

\* The last iteration removed a firework that was exactly 50 units behind
\* the camera with particles still alive.
C21_Witness ==
    /\ fireworks = <<>>
    /\ \E i \in DOMAIN updated :
         /\ updated[i].exploded
         /\ BagCardinality(updated[i].particles) > 0
         /\ camera_z - updated[i].z = 50000

\* The firework u of the list after the updates, as the iteration found it:
\* the member of `fireworks` with its id, or the Firework just constructed.
Before(u) ==
    IF \E f \in Range(fireworks) : f.id = u.id
    THEN CHOOSE f \in Range(fireworks) : f.id = u.id
    ELSE [u EXCEPT !.exploded = FALSE, !.apex_reached = FALSE,
                   !.time_since_apex = 0, !.launch_trail = <<>>,
                   !.particles = EmptyBag, !.explode_calls = 0]

\* The time the iteration passed to the updates.
TickDt == elapsed' - elapsed

\* What an update of a launching firework does to the flag, the hold time
\* and the phase, when the flag is latched by a velocity after gravity that
\* is positive or, with at_zero, non-negative.
ApexLatching(at_zero) ==
    TickCompleted =>
        \A u \in Range(updated') :
            IF Before(u).exploded
            THEN /\ u.apex_reached = Before(u).apex_reached
                 /\ u.time_since_apex = Before(u).time_since_apex
            ELSE /\ u.apex_reached =
                       (Before(u).apex_reached \/ u.vy > 0 \/ (at_zero /\ u.vy = 0))
                 /\ u.time_since_apex =
                       Before(u).time_since_apex + (IF u.apex_reached THEN TickDt ELSE 0)
                 /\ u.exploded = (u.apex_reached /\ u.time_since_apex >= 10)

\* C22 as stated: the flag is latched on the first update of the launch at
\* which the velocity after gravity is non-negative, and never cleared; the
\* hold time grows only with the flag latched; the firework explodes at the
\* first update at which the hold time reaches 1.0 s.
C22_LatchedAtNonNegative == [][ApexLatching(TRUE)]_vars

\* C22, amended: the same with the flag latched on the first update at which
\* the velocity after gravity is positive; a launching firework without the
\* flag has no hold time, one with the flag less than 1.0 s of it.
C22_LatchedAtPositive ==
    /\ [][ApexLatching(FALSE)]_vars
    /\ [](\A f \in Range(fireworks) :
            /\ ~f.apex_reached => (f.time_since_apex = 0 /\ ~f.exploded)
            /\ (f.apex_reached /\ ~f.exploded) => f.time_since_apex < 10)

\* A launching firework whose velocity is exactly zero after an update: the
\* flag is not latched.
C22_Witness ==
    \E f \in Range(fireworks) :
        ~f.exploded /\ f.vy = 0 /\ ~f.apex_reached /\ f.launch_trail # <<>>

\* The last n members of a sequence, all of it when it has fewer.
LastOf(seq, n) == SubSeq(seq, IF Len(seq) > n THEN Len(seq) - n + 1 ELSE 1, Len(seq))

\* C23: the trail never holds more than 15 positions; an update of a
\* launching firework appends the new position and keeps the last 15, in
\* order; an update of an exploded firework leaves the trail alone.
C23_TrailOfFifteen ==
    /\ [](\A f \in Range(fireworks) : Len(f.launch_trail) <= 15)
    /\ [][TickCompleted =>
            \A u \in Range(updated') :
                /\ Len(u.launch_trail) <= 15
                /\ u.launch_trail =
                      IF Before(u).exploded THEN Before(u).launch_trail
                      ELSE LastOf(Append(Before(u).launch_trail, <<u.x, u.y>>), 15)
         ]_vars

\* A launching firework updated at least 16 times: the trail holds 15
\* positions, the newest last, the first no longer among them.
C23_Witness ==
    \E f \in Range(fireworks) :
        /\ ~f.exploded
        /\ Len(f.launch_trail) = 15
        /\ f.launch_trail[15] = <<f.x, f.y>>
        /\ \E d \in FireworkDraws :
              /\ f.color = d.color
              /\ f.vy >= d.vy + 16 * 1000 * FastDt
              /\ \A i \in 1 .. 15 :
                    f.launch_trail[i][2] # (canvas_height - 1) * 1000
                                             + (d.vy + 1000 * FastDt) * FastDt

\* C26: an iteration reads at most one of the keys waiting, the first; it
\* constructs a Firework for the space key whatever the gate, and one more
\* exactly when the gate is open and the time since the last automatic spawn
\* exceeds the interval; so the collection grows by at most two in an
\* iteration, and by at most the manual one while the gate is closed.
C26_SpawnsPerTick ==
    [][elapsed' # elapsed =>
         LET key == IF stdin = <<>> THEN "" ELSE stdin[1]
             manual == IF key = " " THEN 1 ELSE 0
             auto == IF midnight_reached' /\ elapsed' - last_spawn_time > spawn_interval
                     THEN 1 ELSE 0
         IN /\ stdin' = SubSeq(stdin, 2, Len(stdin))
            /\ IF key \in {"q", "^C"}
               THEN spawned' = spawned /\ fireworks' = fireworks
               ELSE /\ spawned' = spawned + manual + auto
                    /\ Len(updated') = Len(fireworks) + manual + auto
                    /\ (auto = 1) <=> (last_spawn_time' = elapsed')
                    /\ (auto = 0) => (last_spawn_time' = last_spawn_time)
            /\ Len(fireworks') <= Len(fireworks) + 2
            /\ ~midnight_reached' => Len(fireworks') <= Len(fireworks) + manual
      ]_vars

\* Two fireworks were constructed in one iteration, one for the space key
\* and one by the open gate.
C26_Witness ==
    /\ Len(fireworks) = 2
    /\ \A i \in 1 .. 2 : Len(fireworks[i].launch_trail) = 1
    /\ midnight_reached
    /\ last_spawn_time = elapsed

\* How many particles of a bag satisfy a condition.
CountWhere(bag, Cond(_)) ==
    BagCardinality([p \in {q \in DOMAIN bag : Cond(q)} |-> bag[p]])

\* The <<lifetime, age>> pairs of the particles of a bag.
Ages(bag) == {<<p.lifetime, p.age>> : p \in DOMAIN bag}

\* C27: an update of an exploded firework by dt adds dt to the age of each
\* particle and leaves its lifetime; the particles whose age has then
\* reached their lifetime are gone and all others are there: for each
\* lifetime L and age a, as many particles have lifetime L and age a + dt
\* after the update as had lifetime L and age a before it when a + dt < L,
\* and none otherwise.
C27_AgeAndRemoval ==
    [][TickCompleted =>
         \A u \in Range(updated') :
             Before(u).exploded =>
                 LET old == Before(u).particles
                 IN /\ TickDt >= 0
                    /\ \A q \in DOMAIN u.particles : q.age < q.lifetime
                    /\ \A la \in Ages(old) \cup {<<m[1], m[2] - TickDt>> : m \in Ages(u.particles)} :
                          CountWhere(u.particles,
                                     LAMBDA q : q.lifetime = la[1] /\ q.age = la[2] + TickDt)
                            = IF la[2] + TickDt < la[1]
                              THEN CountWhere(old, LAMBDA p : p.lifetime = la[1] /\ p.age = la[2])
                              ELSE 0
      ]_vars

\* An exploded firework after an update in which some of its particles
\* reached their lifetime, one of them exactly, and the others did not.
C27_Witness ==
    \E f \in Range(fireworks) :
        /\ f.exploded
        /\ BagCardinality(f.particles) > 0
        /\ BagCardinality(f.particles) < f.num_particles
        /\ \A q \in DOMAIN f.particles : q.age = 20 /\ q.lifetime = 27

\* C28: a launching firework has no particles, in the collection and in the
\* list between the updates and the filter; the update in which a firework
\* explodes gives it particles that all stand at the position the firework
\* has then, with age 0; no other update adds a particle.
C28_ParticlesFromExplosion ==
    /\ [](\A f \in Range(fireworks) \cup Range(updated) :
            ~f.exploded => BagCardinality(f.particles) = 0)
    /\ [][TickCompleted =>
            \A u \in Range(updated') :
                IF ~Before(u).exploded /\ u.exploded
                THEN /\ BagCardinality(u.particles) > 0
                     /\ \A q \in DOMAIN u.particles :
                           q.x = u.x /\ q.y = u.y /\ q.z = u.z /\ q.age = 0
                ELSE BagCardinality(u.particles) <= BagCardinality(Before(u).particles)
         ]_vars

\* A firework has just exploded: its particles, as many as were drawn,
\* stand where it stands.
C28_Witness ==
    \E f \in Range(fireworks) :
        /\ f.exploded
        /\ f.time_since_apex >= 10
        /\ BagCardinality(f.particles) = f.num_particles
        /\ f.num_particles >= 450
        /\ \A q \in DOMAIN f.particles : q.age = 0 /\ <<q.x, q.y, q.z>> = <<f.x, f.y, f.z>>

\* The firework constructed as the id-th of the run is in the collection.
InCollection(id) == \E i \in DOMAIN fireworks : fireworks[i].id = id

\* C32: while iterations keep occurring, every firework put in the
\* collection is removed from it in the end, and the iteration that removes
\* it found it exploded or behind the culling margin.
C32_EveryFireworkLeaves ==
    /\ \A id \in 1 .. MaxSpawns + 1 : InCollection(id) ~> ~InCollection(id)
    /\ [][TickCompleted =>
            \A i \in DOMAIN updated' :
                (\A j \in DOMAIN fireworks' : fireworks'[j].id # updated'[i].id) =>
                    \/ updated'[i].exploded
                    \/ updated'[i].z - camera_z' <= -50000]_vars

\* The collection is empty again after a firework that went up slowly, far
\* from the camera, has exploded and lost its last particle.
C32_Witness ==
    /\ fireworks = <<>>
    /\ \E i \in DOMAIN updated :
         /\ updated[i].exploded
         /\ BagCardinality(updated[i].particles) = 0
         /\ updated[i].z - camera_z > 0

=============================================================================
